---- MODULE Spec2Model ----
(***************************************************************************)
(* Verification model of pytoolbox: the Jalali/Gregorian date engine       *)
(* (pyjdate.py), the interval engine and the commands of the time tracker  *)
(* (pytime.py), the double tunnel (pyssh.py) and the partition command     *)
(* (pyfm.py).                                                              *)
(*                                                                         *)
(* The engine is a library of pure functions.  Each function is an         *)
(* operator computed the way the Python code computes it (Python's // and  *)
(* % are floor division and floor modulus, as are \div and % here for a    *)
(* positive divisor).  Each group of functions has its own specification   *)
(* whose initial states draw the inputs from bounded sets and whose        *)
(* actions apply the functions.                                            *)
(***************************************************************************)
EXTENDS Integers, Sequences, FiniteSets, TLC

VARIABLES
    cal_pc,      \* calendar conversion: "off", "input", "converted", "back"
    cal_kind,    \* calendar of the input triple
    cal_in,      \* input triple <<year, month, day>>
    cal_out,     \* the triple converted into the other calendar
    cal_back,    \* cal_out converted back into the input calendar
    local_off,   \* UTC offset (minutes) of the process's local timezone
    df_pc,       \* difference engine: "off", "input", "diffed"
    df_cal,      \* calendar the difference is decomposed in
    df_a,        \* first instant
    df_b,        \* second instant
    df_fwd,      \* diff_calendar_components(df_cal, df_a, df_b)
    df_rev,      \* diff_calendar_components(df_cal, df_b, df_a)
    iv_pc,       \* interval engine: "off", "ready", "done"
    iv_dt,       \* instant the interval is applied to
    iv_delta,    \* IntervalDelta [years, months, days, seconds]
    iv_dir,      \* direction, +1 or -1
    iv_shifted,  \* apply_interval's local "shifted" after shift_months
    iv_result,   \* the instant apply_interval returns
    ep_pc,       \* endpoint parser: "off", "input", "parsed"
    ep_raw,      \* the raw value, a sequence of characters
    ep_route,    \* "epoch" (parse_epoch) or "calendar" (parse_full_date)
    pg_pc,       \* interval parser: "off", "input", "parsed"
    pg_raw,      \* the interval text, a sequence of characters
    pg_out,      \* what parse_pg_interval did: the delta or the error raised
    vd_pc,       \* date validation: "off", "input", "validated", "counted"
    vd_cal,      \* calendar of the triple
    vd_in,       \* the triple <<year, month, day>>, valid or not
    vd_ok,       \* validate_date returned (TRUE) or raised (FALSE)
    vd_days,     \* days_in_month of the triple's year and month
    vd_leap,     \* is_leap_gregorian / is_leap_jalali of the triple's year
    pr_pc,       \* date parser: "off", "input", and the stage reached
    pr_cal,      \* calendar the text is read in
    pr_date,     \* the text: its date portion,
    pr_sep,      \*   what separates date and time ("", " " or "T"),
    pr_time,     \*   its time portion
    pr_tz,       \*   and its timezone portion
    pr_now,      \* datetime.now().astimezone()
    pr_parts,    \* what parse_date_parts did with the date portion
    pr_zone,     \* what parse_timezone_offset did with the timezone portion
    pr_full,     \* what parse_full_date did with the text
    pr_out,      \* what parse_interval_endpoint did: the instant or the error
    pr_pick,     \* what parse_datetime_value did with fallback allowed
    pr_lines,    \* what convert printed
    tt_pc,       \* time tracker: "off", or "run"
    tt_db,       \* the rows of the table time_entries
    tt_seq,      \* the largest id AUTOINCREMENT has handed out
    tt_clock,    \* the wall clock, in ticks
    tt_last,     \* the last command that ran, and how it ended
    tt_proc,     \* the commands that run at the same time: their position
                 \*   and local variables
    dt_pc,       \* double_tunnel: "off", or the statement it has reached
    dt_env,      \* whether the servers carry a password, whether the local
                 \*   ports are free
    dt_files,    \* the files of .tmp: "absent", or what the file holds
    dt_procs,    \* the processes: "none", "alive" or "killed"
    dt_out,      \* what was reported, whether the user interrupted, the
                 \*   exception that ended the command
    pf_pc,       \* partition: "off", "start", "made", "moving", "done",
                 \*   "failed"
    pf_in,       \* the options and the names the source directory holds
    pf_fs,       \* the file system: the paths with their kind and content
    pf_plan,     \* the moves still to do: <<path, partition index>>
    pf_err       \* the exception that ended the command

calVars == <<cal_pc, cal_kind, cal_in, cal_out, cal_back>>
dfVars == <<df_pc, df_cal, df_a, df_b, df_fwd, df_rev>>
ivVars == <<iv_pc, iv_dt, iv_delta, iv_dir, iv_shifted, iv_result>>
epVars == <<ep_pc, ep_raw, ep_route>>
pgVars == <<pg_pc, pg_raw, pg_out>>
textVars == <<epVars, pgVars>>
vdVars == <<vd_pc, vd_cal, vd_in, vd_ok, vd_days, vd_leap>>
prIn == <<pr_cal, pr_date, pr_sep, pr_time, pr_tz, pr_now>>
prOut == <<pr_parts, pr_zone, pr_full, pr_out, pr_pick, pr_lines>>
prVars == <<pr_pc, prIn, prOut>>
ttVars == <<tt_pc, tt_db, tt_seq, tt_clock, tt_last, tt_proc>>
dtVars == <<dt_pc, dt_env, dt_files, dt_procs, dt_out>>
pfVars == <<pf_pc, pf_in, pf_fs, pf_plan, pf_err>>
restVars == <<ttVars, dtVars, pfVars>>
engineVars == <<local_off, calVars, dfVars, ivVars, textVars, vdVars, prVars>>
otherVars == <<vdVars, prVars, restVars>>

vars == <<cal_pc, cal_kind, cal_in, cal_out, cal_back, local_off,
          df_pc, df_cal, df_a, df_b, df_fwd, df_rev,
          iv_pc, iv_dt, iv_delta, iv_dir, iv_shifted, iv_result,
          ep_pc, ep_raw, ep_route, pg_pc, pg_raw, pg_out,
          vd_pc, vd_cal, vd_in, vd_ok, vd_days, vd_leap,
          pr_pc, pr_cal, pr_date, pr_sep, pr_time, pr_tz, pr_now,
          pr_parts, pr_zone, pr_full, pr_out, pr_pick, pr_lines,
          tt_pc, tt_db, tt_seq, tt_clock, tt_last, tt_proc,
          dt_pc, dt_env, dt_files, dt_procs, dt_out,
          pf_pc, pf_in, pf_fs, pf_plan, pf_err>>

NoDate == <<0, 0, 0>>
NoInstant == [ord |-> 0, sec |-> 0, micro |-> 0, off |-> 0]
NoDelta == [years |-> 0, months |-> 0, days |-> 0, seconds |-> 0]
NoDiff == <<0, 0, 0, 0, 0, 0>>

\* the variables of the groups a specification does not use
CalOff ==
    /\ cal_pc = "off" /\ cal_kind = "gregorian"
    /\ cal_in = NoDate /\ cal_out = NoDate /\ cal_back = NoDate
DfOff ==
    /\ df_pc = "off" /\ df_cal = "gregorian"
    /\ df_a = NoInstant /\ df_b = NoInstant
    /\ df_fwd = NoDiff /\ df_rev = NoDiff
IvOff ==
    /\ iv_pc = "off" /\ iv_dt = NoInstant /\ iv_delta = NoDelta /\ iv_dir = 1
    /\ iv_shifted = NoInstant /\ iv_result = NoInstant
EpOff ==
    /\ ep_pc = "off" /\ ep_raw = <<>> /\ ep_route = "none"
NoOutcome == [status |-> "none", error |-> "none"]
PgOff ==
    /\ pg_pc = "off" /\ pg_raw = <<>> /\ pg_out = NoOutcome
VdOff ==
    /\ vd_pc = "off" /\ vd_cal = "gregorian" /\ vd_in = NoDate
    /\ vd_ok = FALSE /\ vd_days = 0 /\ vd_leap = FALSE
PrOff ==
    /\ pr_pc = "off" /\ pr_cal = "gregorian"
    /\ pr_date = <<>> /\ pr_sep = <<>> /\ pr_time = <<>> /\ pr_tz = <<>>
    /\ pr_now = NoInstant
    /\ pr_parts = NoOutcome /\ pr_zone = NoOutcome /\ pr_full = NoOutcome
    /\ pr_out = NoOutcome /\ pr_pick = NoOutcome /\ pr_lines = <<>>
NoCommand == [cmd |-> "none", status |-> "none", error |-> "none",
              rows |-> {}]
TtOff ==
    /\ tt_pc = "off" /\ tt_db = {} /\ tt_seq = 0 /\ tt_clock = 0
    /\ tt_last = NoCommand /\ tt_proc = <<>>
DtOff ==
    /\ dt_pc = "off" /\ dt_env = <<>> /\ dt_files = <<>> /\ dt_procs = <<>>
    /\ dt_out = <<>>
PfOff ==
    /\ pf_pc = "off" /\ pf_in = <<>> /\ pf_fs = {} /\ pf_plan = <<>>
    /\ pf_err = "none"
RestOff == TtOff /\ DtOff /\ PfOff
EngineOff ==
    /\ local_off = 0
    /\ CalOff /\ DfOff /\ IvOff /\ EpOff /\ PgOff /\ VdOff /\ PrOff
OtherOff == VdOff /\ PrOff /\ RestOff

(***************************************************************************)
(* Bounds                                                                  *)
(***************************************************************************)
\* years taken on each side of an anchor year
YearSpan == 2

\* Gregorian anchor years: before the 1600 origin of the day count, a year
\* whose 20th of March closes a 33-year cycle of the converters (1799), and
\* now
GregorianAnchors == {1598, 1799, 2025}

\* Jalali anchor years: a year the break table calls leap (1176), and now
JalaliAnchors == {1176, 1403}

GregorianYears == UNION {(a - YearSpan)..(a + YearSpan) : a \in GregorianAnchors}
JalaliYears == UNION {(a - YearSpan)..(a + YearSpan) : a \in JalaliAnchors}

(***************************************************************************)
(* Calendar math (pyjdate.py)                                              *)
(***************************************************************************)
Min(a, b) == IF a < b THEN a ELSE b

is_leap_gregorian(year) ==
    year % 4 = 0 /\ (year % 100 # 0 \/ year % 400 = 0)

breaks == <<-61, 9, 38, 199, 426, 686, 756, 818, 1111, 1181, 1210, 1635, 2060,
            2097, 2192, 2262, 2324, 2394, 2456, 3178>>

\* The for loop over breaks[1:]: i indexes the next break, jp is the previous
\* break, jump the last computed jump.  Returns the (jp, jump) the loop leaves.
RECURSIVE leap_walk(_, _, _, _)
leap_walk(year, i, jp, jump) ==
    IF i > Len(breaks) THEN [jp |-> jp, jump |-> jump]
    ELSE LET jm == breaks[i]
             newjump == jm - jp
         IN IF year < jm THEN [jp |-> jp, jump |-> newjump]
            ELSE leap_walk(year, i + 1, jm, newjump)

\* A slip in the position within the 33-year cycle: n is used where n + 1
\* belongs.
is_leap_jalali_unshifted(year) ==
    LET w == leap_walk(year, 2, breaks[1], 0)
        n0 == year - w.jp
        n == IF w.jump - n0 < 6
             THEN n0 - w.jump + ((w.jump + 4) \div 33) * 33
             ELSE n0
        leap == ((n % 33) - 1) % 4
    IN leap = 0

is_leap_jalali(year) ==
    LET w == leap_walk(year, 2, breaks[1], 0)
        n0 == year - w.jp
        n == IF w.jump - n0 < 6
             THEN n0 - w.jump + ((w.jump + 4) \div 33) * 33
             ELSE n0
        leap == (((n + 1) % 33) - 1) % 4
    IN leap = 0

\* A slip in the leap-day test: February already counts the leap day.
leap_day_adjust_from_february(gy, gm) ==
    IF gm >= 2 /\ is_leap_gregorian(gy) THEN 1 ELSE 0

\* "if gm > 2 and is_leap_gregorian(gy): g_day_no += 1"
leap_day_adjust(gy, gm) ==
    IF gm > 2 /\ is_leap_gregorian(gy) THEN 1 ELSE 0

g_d_m == <<0, 31, 59, 90, 120, 151, 181, 212, 243, 273, 304, 334>>

\* A slip in the days from 1 January to Nowruz of the base year: 80.
gregorian_to_jalali_from_day_80(gy, gm, gd) ==
    LET gy2 == gy - 1600
        gm2 == gm - 1
        gd2 == gd - 1
        g_day_no0 == 365 * gy2 + ((gy2 + 3) \div 4) - ((gy2 + 99) \div 100)
                     + ((gy2 + 399) \div 400)
        g_day_no1 == g_day_no0 + g_d_m[gm2 + 1] + gd2
        g_day_no == g_day_no1 + leap_day_adjust(gy, gm)
        j_day_no0 == g_day_no - 80
        j_np == j_day_no0 \div 12053
        j_day_no1 == j_day_no0 % 12053
        jy0 == 979 + 33 * j_np + 4 * (j_day_no1 \div 1461)
        j_day_no2 == j_day_no1 % 1461
        jy == IF j_day_no2 >= 366
              THEN jy0 + ((j_day_no2 - 1) \div 365) ELSE jy0
        j_day_no == IF j_day_no2 >= 366
                    THEN (j_day_no2 - 1) % 365 ELSE j_day_no2
    IN IF j_day_no < 186
       THEN <<jy, 1 + (j_day_no \div 31), 1 + (j_day_no % 31)>>
       ELSE <<jy, 7 + ((j_day_no - 186) \div 30), 1 + ((j_day_no - 186) % 30)>>

gregorian_to_jalali(gy, gm, gd) ==
    LET gy2 == gy - 1600
        gm2 == gm - 1
        gd2 == gd - 1
        g_day_no0 == 365 * gy2 + ((gy2 + 3) \div 4) - ((gy2 + 99) \div 100)
                     + ((gy2 + 399) \div 400)
        g_day_no1 == g_day_no0 + g_d_m[gm2 + 1] + gd2
        g_day_no == g_day_no1 + leap_day_adjust(gy, gm)
        j_day_no0 == g_day_no - 79
        j_np == j_day_no0 \div 12053
        j_day_no1 == j_day_no0 % 12053
        jy0 == 979 + 33 * j_np + 4 * (j_day_no1 \div 1461)
        j_day_no2 == j_day_no1 % 1461
        jy == IF j_day_no2 >= 366
              THEN jy0 + ((j_day_no2 - 1) \div 365) ELSE jy0
        j_day_no == IF j_day_no2 >= 366
                    THEN (j_day_no2 - 1) % 365 ELSE j_day_no2
    IN IF j_day_no < 186
       THEN <<jy, 1 + (j_day_no \div 31), 1 + (j_day_no % 31)>>
       ELSE <<jy, 7 + ((j_day_no - 186) \div 30), 1 + ((j_day_no - 186) % 30)>>

gregorian_month_days(year) ==
    <<31, IF is_leap_gregorian(year) THEN 29 ELSE 28, 31, 30, 31, 30,
      31, 31, 30, 31, 30, 31>>

jalali_month_days(year) ==
    <<31, 31, 31, 31, 31, 31, 30, 30, 30, 30, 30,
      IF is_leap_jalali(year) THEN 30 ELSE 29>>

\* The while loop of jalali_to_gregorian that turns a day of year into
\* a month and a day of month.
RECURSIVE month_walk(_, _, _)
month_walk(gy, gm, gd) ==
    IF gm <= 12 /\ gd > gregorian_month_days(gy)[gm]
    THEN month_walk(gy, gm + 1, gd - gregorian_month_days(gy)[gm])
    ELSE <<gy, gm, gd>>

jalali_to_gregorian(jy0, jm, jd) ==
    LET jy == jy0 + 1595
        days0 == -355668 + (365 * jy) + (jy \div 33) * 8
                 + (((jy % 33) + 3) \div 4) + jd
        days1 == IF jm < 7 THEN days0 + (jm - 1) * 31
                 ELSE days0 + (jm - 7) * 30 + 186
        gy0 == 400 * (days1 \div 146097)
        days2 == days1 % 146097
        big == days2 > 36524
        gy1 == IF big THEN gy0 + 100 * ((days2 - 1) \div 36524) ELSE gy0
        days3a == (days2 - 1) % 36524
        days3 == IF big THEN (IF days3a >= 365 THEN days3a + 1 ELSE days3a)
                 ELSE days2
        gy2 == gy1 + 4 * (days3 \div 1461)
        days4 == days3 % 1461
        gy == IF days4 > 365 THEN gy2 + ((days4 - 1) \div 365) ELSE gy2
        days == IF days4 > 365 THEN (days4 - 1) % 365 ELSE days4
    IN month_walk(gy, 1, days + 1)

days_in_month(calendar, year, month) ==
    IF calendar = "gregorian" THEN gregorian_month_days(year)[month]
    ELSE jalali_month_days(year)[month]

\* A slip in the upper limit: the last day of the month is refused.
validate_date_last_day_refused(calendar, year, month, day) ==
    /\ ~(month < 1 \/ month > 12)
    /\ ~(day < 1 \/ day >= (IF calendar = "gregorian"
                             THEN gregorian_month_days(year)[month]
                             ELSE jalali_month_days(year)[month]))

\* TRUE when validate_date returns, FALSE when it raises
validate_date(calendar, year, month, day) ==
    /\ ~(month < 1 \/ month > 12)
    /\ ~(day < 1 \/ day > (IF calendar = "gregorian"
                            THEN gregorian_month_days(year)[month]
                            ELSE jalali_month_days(year)[month]))

(***************************************************************************)
(* datetime values.  An instant is an aware datetime: its wall-clock date  *)
(* (as a proleptic Gregorian ordinal, day 1 = 0001-01-01), wall-clock      *)
(* second of the day, microsecond, and the UTC offset of its tzinfo in     *)
(* minutes.                                                                *)
(***************************************************************************)
days_before_year(y) ==
    LET p == y - 1 IN p * 365 + (p \div 4) - (p \div 100) + (p \div 400)

days_before_month(y, m) ==
    g_d_m[m] + (IF m > 2 /\ is_leap_gregorian(y) THEN 1 ELSE 0)

\* date(y, m, d).toordinal()
ToOrdinal(y, m, d) == days_before_year(y) + days_before_month(y, m) + d

\* date.fromordinal(n) as <<year, month, day>>
year_of_ordinal(n) ==
    CHOOSE c \in (n \div 366)..((n \div 365) + 1) :
        days_before_year(c) < n /\ n <= days_before_year(c + 1)

\* r is the day of the year y
month_of_year_day(y, r) ==
    CHOOSE c \in 1..12 :
        /\ days_before_month(y, c) < r
        /\ r <= days_before_month(y, c) + gregorian_month_days(y)[c]

date_of_month(y, m, r) == <<y, m, r - days_before_month(y, m)>>

date_of_year_day(y, r) == date_of_month(y, month_of_year_day(y, r), r)

date_of_year(y, n) == date_of_year_day(y, n - days_before_year(y))

FromOrdinal(n) == date_of_year(year_of_ordinal(n), n)

\* dt.astimezone(timezone(minutes = off)): the same instant, new wall clock
astimezone(dt, off) ==
    LET total == dt.sec + (off - dt.off) * 60
    IN [ord |-> dt.ord + (total \div 86400), sec |-> total % 86400,
        micro |-> dt.micro, off |-> off]

\* x < y on aware datetimes: the order of the instants they denote
Before(x, y) ==
    LET ux == astimezone(x, 0)
        uy == astimezone(y, 0)
    IN \/ ux.ord < uy.ord
       \/ ux.ord = uy.ord /\ ux.sec < uy.sec
       \/ ux.ord = uy.ord /\ ux.sec = uy.sec /\ ux.micro < uy.micro

\* dt + timedelta(days = days, seconds = seconds), whole seconds
add_timedelta(dt, days, seconds) ==
    LET total == dt.sec + seconds
    IN [dt EXCEPT !.ord = dt.ord + days + (total \div 86400),
                  !.sec = total % 86400]

(***************************************************************************)
(* Difference engine (pyjdate.py)                                          *)
(***************************************************************************)
\* g is the <<year, month, day>> of g_date
calendar_date_of_triple(calendar, g) ==
    IF calendar = "gregorian" THEN g
    ELSE gregorian_to_jalali(g[1], g[2], g[3])

calendar_date_from_gregorian(calendar, g_date) ==
    calendar_date_of_triple(calendar, FromOrdinal(g_date))

\* A slip: the instants are truncated but never put in order.
_normalize_local_datetimes_no_swap(start_dt, end_dt) ==
    <<[astimezone(start_dt, local_off) EXCEPT !.micro = 0],
      [astimezone(end_dt, local_off) EXCEPT !.micro = 0]>>

_normalize_local_datetimes(start_dt, end_dt) ==
    LET start_local == [astimezone(start_dt, local_off) EXCEPT !.micro = 0]
        end_local == [astimezone(end_dt, local_off) EXCEPT !.micro = 0]
    IN IF Before(end_local, start_local)
       THEN <<end_local, start_local>>
       ELSE <<start_local, end_local>>

\* A slip in the time borrow: a day is taken off the end date but its 86400
\* seconds are not added to the end time.
_time_diff_parts_day_not_added(start_local, end_local) ==
    LET start_time_seconds == start_local.sec
        borrow == end_local.sec < start_time_seconds
        end_time_seconds == end_local.sec
        end_date == IF borrow THEN add_timedelta(end_local, -1, 0).ord
                    ELSE end_local.ord
        time_diff == end_time_seconds - start_time_seconds
    IN <<time_diff \div 3600, (time_diff % 3600) \div 60, time_diff % 60,
         end_date>>

\* <<hours, minutes, seconds, end_date>>
_time_diff_parts(start_local, end_local) ==
    LET start_time_seconds == start_local.sec
        borrow == end_local.sec < start_time_seconds
        end_time_seconds == IF borrow THEN end_local.sec + 86400
                            ELSE end_local.sec
        end_date == IF borrow THEN add_timedelta(end_local, -1, 0).ord
                    ELSE end_local.ord
        time_diff == end_time_seconds - start_time_seconds
    IN <<time_diff \div 3600, (time_diff % 3600) \div 60, time_diff % 60,
         end_date>>

\* A slip in the day borrow: the days added are those of the end month
\* itself, not of the month before it.
date_borrow_end_month(calendar, s, e) ==
    LET dborrow == e[3] < s[3]
        end_y1 == IF dborrow /\ e[2] = 1 THEN e[1] - 1 ELSE e[1]
        end_m1 == IF dborrow THEN (IF e[2] = 1 THEN 12 ELSE e[2] - 1) ELSE e[2]
        end_d == IF dborrow THEN e[3] + days_in_month(calendar, e[1], e[2])
                 ELSE e[3]
        mborrow == end_m1 < s[2]
        end_y == IF mborrow THEN end_y1 - 1 ELSE end_y1
        end_m == IF mborrow THEN end_m1 + 12 ELSE end_m1
    IN <<end_y - s[1], end_m - s[2], end_d - s[3]>>

\* The borrows of _date_diff_parts on the calendar triples s (start) and
\* e (end): <<years, months, days>>
date_borrow(calendar, s, e) ==
    LET dborrow == e[3] < s[3]
        end_y1 == IF dborrow /\ e[2] = 1 THEN e[1] - 1 ELSE e[1]
        end_m1 == IF dborrow THEN (IF e[2] = 1 THEN 12 ELSE e[2] - 1) ELSE e[2]
        end_d == IF dborrow THEN e[3] + days_in_month(calendar, end_y1, end_m1)
                 ELSE e[3]
        mborrow == end_m1 < s[2]
        end_y == IF mborrow THEN end_y1 - 1 ELSE end_y1
        end_m == IF mborrow THEN end_m1 + 12 ELSE end_m1
    IN <<end_y - s[1], end_m - s[2], end_d - s[3]>>

\* <<years, months, days>>
_date_diff_parts(calendar, start_date, end_date) ==
    date_borrow(calendar, calendar_date_from_gregorian(calendar, start_date),
                calendar_date_from_gregorian(calendar, end_date))

\* diff_calendar_components once the instants are normalized (start_local)
\* and the time difference t = <<hours, minutes, seconds, end_date>> is known
diff_of_parts(calendar, start_local, t) ==
    _date_diff_parts(calendar, start_local.ord, t[4]) \o <<t[1], t[2], t[3]>>

diff_of_normalized(calendar, n) ==
    diff_of_parts(calendar, n[1], _time_diff_parts(n[1], n[2]))

\* <<years, months, days, hours, minutes, seconds>>
diff_calendar_components(calendar, start_dt, end_dt) ==
    diff_of_normalized(calendar, _normalize_local_datetimes(start_dt, end_dt))

(***************************************************************************)
(* Interval engine (pytime.py)                                             *)
(***************************************************************************)
\* A slip: the day of month is kept as it is, so that a day past the end of
\* the target month runs over into the following month.
shift_replace_rollover(dt, g, months) ==
    LET year == g[1] + ((g[2] - 1 + months) \div 12)
        month == ((g[2] - 1 + months) % 12) + 1
    IN [dt EXCEPT !.ord = ToOrdinal(year, month, 1) + g[3] - 1]

\* dt.replace(year = ..., month = ..., day = ...) of shift_months, where g is
\* the <<year, month, day>> of dt
shift_replace(dt, g, months) ==
    LET year == g[1] + ((g[2] - 1 + months) \div 12)
        month == ((g[2] - 1 + months) % 12) + 1
        max_day == days_in_month("gregorian", year, month)
        day == Min(g[3], max_day)
    IN [dt EXCEPT !.ord = ToOrdinal(year, month, day)]

shift_months(dt, months) ==
    IF months = 0 THEN dt
    ELSE shift_replace(dt, FromOrdinal(dt.ord), months)

\* A slip: the exact duration is added first, the months are shifted after.
apply_interval_add_first(dt, delta, direction) ==
    shift_months(add_timedelta(dt, direction * delta.days,
                               direction * delta.seconds),
                 direction * (delta.years * 12 + delta.months))

apply_interval(dt, delta, direction) ==
    add_timedelta(shift_months(dt, direction * (delta.years * 12 + delta.months)),
                  direction * delta.days, direction * delta.seconds)

(***************************************************************************)
(* Specification SpecCal: convert a valid date and convert it back         *)
(***************************************************************************)
ValidDates(calendar, years) ==
    {t \in years \X (1..12) \X (1..31) : validate_date(calendar, t[1], t[2], t[3])}

InitCal ==
    /\ cal_pc = "input"
    /\ cal_kind \in {"gregorian", "jalali"}
    /\ cal_in \in IF cal_kind = "gregorian"
                  THEN ValidDates("gregorian", GregorianYears)
                  ELSE ValidDates("jalali", JalaliYears)
    /\ cal_out = NoDate
    /\ cal_back = NoDate
    /\ local_off = 0
    /\ DfOff /\ IvOff /\ EpOff /\ PgOff /\ OtherOff

\* gregorian_to_jalali applied to the input, or to a converted Jalali input
GregorianToJalali ==
    \/ /\ cal_pc = "input" /\ cal_kind = "gregorian"
       /\ cal_out' = gregorian_to_jalali(cal_in[1], cal_in[2], cal_in[3])
       /\ cal_pc' = "converted"
       /\ UNCHANGED <<cal_kind, cal_in, cal_back, local_off, dfVars, ivVars,
                      textVars, otherVars>>
    \/ /\ cal_pc = "converted" /\ cal_kind = "jalali"
       /\ cal_back' = gregorian_to_jalali(cal_out[1], cal_out[2], cal_out[3])
       /\ cal_pc' = "back"
       /\ UNCHANGED <<cal_kind, cal_in, cal_out, local_off, dfVars, ivVars,
                      textVars, otherVars>>

\* jalali_to_gregorian applied to the input, or to a converted Gregorian input
JalaliToGregorian ==
    \/ /\ cal_pc = "input" /\ cal_kind = "jalali"
       /\ cal_out' = jalali_to_gregorian(cal_in[1], cal_in[2], cal_in[3])
       /\ cal_pc' = "converted"
       /\ UNCHANGED <<cal_kind, cal_in, cal_back, local_off, dfVars, ivVars,
                      textVars, otherVars>>
    \/ /\ cal_pc = "converted" /\ cal_kind = "gregorian"
       /\ cal_back' = jalali_to_gregorian(cal_out[1], cal_out[2], cal_out[3])
       /\ cal_pc' = "back"
       /\ UNCHANGED <<cal_kind, cal_in, cal_out, local_off, dfVars, ivVars,
                      textVars, otherVars>>

NextCal == GregorianToJalali \/ JalaliToGregorian

SpecCal == InitCal /\ [][NextCal]_vars

(***************************************************************************)
(* Claims on the calendar conversions                                      *)
(***************************************************************************)
\* C1: for every valid Gregorian date, also in years before 1600, converting
\* to Jalali and back gives the date again:
\* jalali_to_gregorian(gregorian_to_jalali(y, m, d)) = (y, m, d).
C1_GregorianRoundTrip ==
    (cal_pc = "back" /\ cal_kind = "gregorian") => cal_back = cal_in

C1_Witness ==
    /\ cal_pc = "back" /\ cal_kind = "gregorian"
    /\ cal_in[1] < 1600
    /\ cal_in[2] = 2 /\ cal_in[3] = 29
    /\ cal_out = gregorian_to_jalali(cal_in[1], cal_in[2], cal_in[3])
    /\ cal_back = cal_in

\* C2: for every Jalali date validate_date accepts (day 30 of month 12 in the
\* years is_leap_jalali calls leap included), converting to Gregorian and
\* back gives the date again.
C2_JalaliRoundTrip ==
    (cal_pc = "back" /\ cal_kind = "jalali") => cal_back = cal_in

\* C25: for every valid Gregorian date, gregorian_to_jalali returns a triple
\* that validate_date('jalali', ...) accepts: month in 1..12 and
\* day <= days_in_month('jalali', year, month); the converter never produces
\* day 30 of month 12 in a year that is_leap_jalali calls non-leap.
C25_ConvertedDateIsValid ==
    (cal_kind = "gregorian" /\ cal_pc \in {"converted", "back"}) =>
        /\ validate_date("jalali", cal_out[1], cal_out[2], cal_out[3])
        /\ cal_out[2] \in 1..12
        /\ cal_out[3] \in 1..days_in_month("jalali", cal_out[1], cal_out[2])
        /\ ~(/\ cal_out[2] = 12 /\ cal_out[3] = 30
             /\ ~is_leap_jalali(cal_out[1]))

\* C13: gregorian_to_jalali(2026, 1, 4) is (1404, 10, 14) and
\* jalali_to_gregorian(1404, 10, 14) is (2026, 1, 4).
C13_FourthOfJanuary2026 ==
    /\ (cal_pc # "input" /\ cal_kind = "gregorian" /\ cal_in = <<2026, 1, 4>>)
           => cal_out = <<1404, 10, 14>>
    /\ (cal_pc # "input" /\ cal_kind = "jalali" /\ cal_in = <<1404, 10, 14>>)
           => cal_out = <<2026, 1, 4>>

\* 2026-01-04 was converted to 1404-10-14, and 1404-10-14 back to 2026-01-04
C13_Witness ==
    /\ cal_pc = "back" /\ cal_kind = "gregorian"
    /\ cal_in = <<2026, 1, 4>>
    /\ cal_out = <<1404, 10, 14>>
    /\ cal_back = <<2026, 1, 4>>

(***************************************************************************)
(* Specification SpecDiff: decompose the difference of two instants in a   *)
(* calendar, in both argument orders, and apply it back to the earlier one *)
(***************************************************************************)
\* days taken from each anchor date onwards
DiffSpan == 3

\* anchors before a year end, before the ends of January and of February in
\* a leap year, before the end of the Jalali year 1402 (2024-03-19), and
\* before the end of February a year later
DiffAnchors == {ToOrdinal(2023, 12, 30), ToOrdinal(2024, 1, 29),
                ToOrdinal(2024, 2, 27), ToOrdinal(2024, 3, 18),
                ToOrdinal(2025, 2, 27)}

DiffDates == UNION {a..(a + DiffSpan) : a \in DiffAnchors}

\* wall-clock seconds of the day: 01:00:00 and 22:00:00
DiffTimes == {3600, 79200}

\* UTC offsets in minutes: UTC and +03:30
Offsets == {0, 210}

DiffInstants == [ord : DiffDates, sec : DiffTimes, micro : {0, 500000},
                 off : Offsets]

InitDiff ==
    /\ local_off \in Offsets
    /\ df_pc = "input"
    /\ df_cal = "gregorian"
    /\ df_a \in DiffInstants
    /\ df_b \in DiffInstants
    /\ df_fwd = NoDiff /\ df_rev = NoDiff
    /\ CalOff /\ IvOff /\ EpOff /\ PgOff /\ OtherOff

\* The earlier and the later of the two instants (df_a on a tie)
Earlier == IF Before(df_b, df_a) THEN df_b ELSE df_a
Later == IF Before(df_b, df_a) THEN df_a ELSE df_b

\* diff_calendar_components on the two instants, in both argument orders;
\* the result is handed to the interval engine as an IntervalDelta for the
\* earlier instant.
DiffCalendarComponents ==
    /\ df_pc = "input"
    /\ \E calendar \in {"gregorian", "jalali"} :
            /\ df_cal' = calendar
            /\ df_fwd' = diff_calendar_components(calendar, df_a, df_b)
            /\ df_rev' = diff_calendar_components(calendar, df_b, df_a)
    /\ iv_delta' = [years |-> df_fwd'[1], months |-> df_fwd'[2],
                    days |-> df_fwd'[3],
                    seconds |-> 3600 * df_fwd'[4] + 60 * df_fwd'[5] + df_fwd'[6]]
    /\ df_pc' = "diffed"
    /\ iv_pc' = "ready"
    /\ iv_dt' = Earlier
    /\ iv_dir' = 1
    /\ UNCHANGED <<calVars, local_off, df_a, df_b, iv_shifted, iv_result,
                   textVars, otherVars>>

\* apply_interval(iv_dt, iv_delta, iv_dir)
ApplyInterval ==
    /\ iv_pc = "ready"
    /\ iv_result' = apply_interval(iv_dt, iv_delta, iv_dir)
    /\ iv_pc' = "applied"
    /\ UNCHANGED <<calVars, local_off, dfVars, iv_dt, iv_delta, iv_dir, iv_shifted,
                   textVars, otherVars>>

NextDiff == DiffCalendarComponents \/ ApplyInterval

SpecDiff == InitDiff /\ [][NextDiff]_vars

\* the absolute distance of two instants is at most one second
WithinOneSecond(x, y) ==
    LET ux == astimezone(x, 0)
        uy == astimezone(y, 0)
        dsec == (ux.ord - uy.ord) * 86400 + (ux.sec - uy.sec)
        dmicro == ux.micro - uy.micro
    IN /\ dsec \in -2..2
       /\ dsec * 1000000 + dmicro \in -1000000..1000000

\* C3: every field of diff_calendar_components(calendar, A, B) is >= 0, for
\* all instants A, B and both calendars.
C3_DiffNonNegative ==
    df_pc = "diffed" => \A i \in 1..6 : df_fwd[i] >= 0 /\ df_rev[i] >= 0

\* C4: for A <= B, applying the Gregorian difference of A and B to A as an
\* IntervalDelta (years, months, days, seconds = 3600h + 60m + s) with
\* apply_interval(A, delta, +1) gives B to within one second.
C4_DiffApplyInverse ==
    (iv_pc = "applied" /\ df_pc = "diffed" /\ df_cal = "gregorian")
        => WithinOneSecond(iv_result, Later)

\* C5: diff_calendar_components(cal, A, B) = diff_calendar_components(cal, B, A)
\* for all instants and both calendars, also when A and B differ only in
\* their sub-second part.
C5_DiffSymmetric ==
    df_pc = "diffed" => df_fwd = df_rev

C5_Witness ==
    /\ df_pc = "diffed"
    /\ df_a.micro # df_b.micro
    /\ [df_a EXCEPT !.micro = 0] = [df_b EXCEPT !.micro = 0]
    /\ Before(df_b, df_a)
    /\ df_fwd = df_rev

\* The dates _date_diff_parts is called with, as calendar triples: the date
\* of the earlier instant and the end date _time_diff_parts returned
DiffNormalized == _normalize_local_datetimes(df_a, df_b)
DiffStartDate == calendar_date_from_gregorian(df_cal, DiffNormalized[1].ord)
DiffEndOrdinal == _time_diff_parts(DiffNormalized[1], DiffNormalized[2])[4]
DiffEndDate == calendar_date_from_gregorian(df_cal, DiffEndOrdinal)

\* The end year and month counted in months, one fewer when a day is borrowed
BorrowedMonthCount(s, e) ==
    12 * e[1] + (e[2] - 1) - (IF e[3] < s[3] THEN 1 ELSE 0)

\* The difference as stated: by and bm are the end year and month after the
\* day borrow
StatedDifference(calendar, s, e, by, bm) ==
    <<by - (IF bm < s[2] THEN 1 ELSE 0) - s[1],
      bm + (IF bm < s[2] THEN 12 ELSE 0) - s[2],
      e[3] + (IF e[3] < s[3] THEN days_in_month(calendar, by, bm) ELSE 0) - s[3]>>

StatedDateDiff(calendar, s, e) ==
    StatedDifference(calendar, s, e, BorrowedMonthCount(s, e) \div 12,
                     (BorrowedMonthCount(s, e) % 12) + 1)

\* C23: in _date_diff_parts, when the end day of month is smaller than the
\* start day of month, the end month is decremented (January wraps to month
\* 12 of the previous year) and days_in_month(calendar, year, month) of the
\* decremented month is added to the end day; when the end month is then
\* smaller than the start month, the end year is decremented and 12 is added
\* to the month.  The returned (years, months, days) are the field-wise
\* differences after these borrows.
C23_DateDiffBorrows ==
    df_pc = "diffed" =>
        <<df_fwd[1], df_fwd[2], df_fwd[3]>>
            = StatedDateDiff(df_cal, DiffStartDate, DiffEndDate)

\* a day was borrowed from an end date in January, so that the month wrapped
\* to month 12 of the year before
C23_Witness ==
    /\ df_pc = "diffed" /\ df_cal = "gregorian"
    /\ DiffEndDate[2] = 1
    /\ DiffEndDate[3] < DiffStartDate[3]
    /\ DiffStartDate[2] = 12
    /\ DiffEndDate[1] = DiffStartDate[1] + 1
    /\ df_fwd[1] = 0 /\ df_fwd[2] = 0
    /\ df_fwd[3] = DiffEndDate[3] + 31 - DiffStartDate[3]

\* C26: for all instants and both calendars, diff_calendar_components
\* returns hours in 0..23, minutes in 0..59, seconds in 0..59, months in
\* 0..11 and years >= 0, and the date used for the date difference (the end
\* date, minus one day when the end time of day is earlier than the start
\* time of day) is never before the start date.
C26_DiffFieldRanges ==
    df_pc = "diffed" =>
        /\ \A d \in {df_fwd, df_rev} :
                /\ d[4] \in 0..23 /\ d[5] \in 0..59 /\ d[6] \in 0..59
                /\ d[2] \in 0..11
                /\ d[1] >= 0
        /\ DiffEndOrdinal >= DiffNormalized[1].ord

\* the end time of day is earlier than the start time of day, so that a day
\* was taken off the end date, in the Jalali calendar across the year end
C26_Witness ==
    /\ df_pc = "diffed" /\ df_cal = "jalali"
    /\ DiffNormalized[2].sec < DiffNormalized[1].sec
    /\ DiffEndOrdinal = DiffNormalized[2].ord - 1
    /\ DiffEndDate[1] = DiffStartDate[1] + 1
    /\ df_fwd[1] = 0 /\ df_fwd[2] = 11
    /\ df_fwd[4] = 3

(***************************************************************************)
(* Specification SpecShift: shift_months and apply_interval on an instant  *)
(* and an IntervalDelta with whole days and seconds, in both directions    *)
(***************************************************************************)
\* months of the delta range over -MaxMonths..MaxMonths, years over -1..1
MaxMonths == 2

\* days of the month taken from every month of the year: the first, the
\* middle and every possible month end
ShiftDays == {1, 15, 28, 29, 30, 31}

ShiftDates ==
    {ToOrdinal(t[1], t[2], t[3]) :
        t \in {u \in {2024} \X (1..12) \X ShiftDays :
                  validate_date("gregorian", u[1], u[2], u[3])}}

\* 10:20:30 and 23:00:00
ShiftTimes == {37230, 82800}

ShiftDeltas == [years : -1..1, months : (0 - MaxMonths)..MaxMonths,
                days : {0, 1}, seconds : {0, 7200}]

InitShift ==
    /\ local_off = 0
    /\ iv_pc = "ready"
    /\ iv_dt \in [ord : ShiftDates, sec : ShiftTimes, micro : {0}, off : {0}]
    /\ iv_delta \in ShiftDeltas
    /\ iv_dir \in {1, -1}
    /\ iv_shifted = NoInstant
    /\ iv_result = NoInstant
    /\ CalOff /\ DfOff /\ EpOff /\ PgOff /\ OtherOff

\* the whole months apply_interval shifts by
MonthDelta == iv_dir * (iv_delta.years * 12 + iv_delta.months)

\* shift_months(iv_dt, MonthDelta)
ShiftMonths ==
    /\ iv_pc = "ready"
    /\ iv_shifted' = shift_months(iv_dt, MonthDelta)
    /\ iv_pc' = "shifted"
    /\ UNCHANGED <<calVars, local_off, dfVars, iv_dt, iv_delta, iv_dir, iv_result,
                   textVars, otherVars>>

NextShift == ShiftMonths \/ ApplyInterval

SpecShift == InitShift /\ [][NextShift]_vars

\* The month k whole months from the month of g = <<year, month, day>>: the
\* one whose index year * 12 + month - 1 is k larger.
ShiftedMonth(g, k) ==
    CHOOSE ym \in ((g[1] - 3)..(g[1] + 3)) \X (1..12) :
        ym[1] * 12 + ym[2] - 1 = g[1] * 12 + g[2] - 1 + k

\* The latest existing day of the month ym that is not after the day "day"
ClampedDay(ym, day) ==
    CHOOSE d \in 1..day :
        /\ validate_date("gregorian", ym[1], ym[2], d)
        /\ \A e \in (d + 1)..day : ~validate_date("gregorian", ym[1], ym[2], e)

DateInMonth(ym, day) == <<ym[1], ym[2], ClampedDay(ym, day)>>

\* The date k whole months from the date g, clamped to the month's length
ClampedShiftDate(g, k) == DateInMonth(ShiftedMonth(g, k), g[3])

\* C7: shifting by k whole months lands in year dt.year + floor((dt.month - 1
\* + k) / 12), month ((dt.month - 1 + k) mod 12) + 1, on day min(dt.day,
\* length of that month), with the time of day unchanged: never an invalid
\* date and never a day of the following month.
C7_ShiftMonthsClamps ==
    iv_pc = "shifted" =>
        /\ FromOrdinal(iv_shifted.ord)
             = ClampedShiftDate(FromOrdinal(iv_dt.ord), MonthDelta)
        /\ iv_shifted.sec = iv_dt.sec
        /\ iv_shifted.micro = iv_dt.micro
        /\ iv_shifted.off = iv_dt.off

\* 2024-01-31 plus 1 month is 2024-02-29
C7_Witness ==
    /\ iv_pc = "shifted"
    /\ FromOrdinal(iv_dt.ord) = <<2024, 1, 31>>
    /\ MonthDelta = 1
    /\ FromOrdinal(iv_shifted.ord) = <<2024, 2, 29>>
    /\ iv_shifted.sec = iv_dt.sec

\* C8: apply_interval first makes the clamped whole-month shift and then adds
\* direction * (days * 86400 + seconds) seconds, in both directions.
C8_ShiftThenAdd ==
    iv_pc = "applied" =>
        LET g == ClampedShiftDate(FromOrdinal(iv_dt.ord), MonthDelta)
        IN /\ (iv_result.ord - ToOrdinal(g[1], g[2], g[3])) * 86400
                + (iv_result.sec - iv_dt.sec)
              = iv_dir * (iv_delta.days * 86400 + iv_delta.seconds)
           /\ iv_result.sec \in 0..86399
           /\ iv_result.micro = iv_dt.micro
           /\ iv_result.off = iv_dt.off

\* 2024-01-31 plus {months: 1, days: 1} is 2024-03-01, and 2024-01-30 plus the
\* same delta is 2024-03-01 too (adding the day first would give 2024-02-29)
C8_Witness ==
    /\ iv_pc = "applied"
    /\ FromOrdinal(iv_dt.ord) = <<2024, 1, 30>>
    /\ iv_delta = [years |-> 0, months |-> 1, days |-> 1, seconds |-> 0]
    /\ iv_dir = 1
    /\ FromOrdinal(iv_result.ord) = <<2024, 3, 1>>

(***************************************************************************)
(* Text.  A Python str is a sequence of one-character strings.             *)
(***************************************************************************)
Digits == {"0", "1", "2", "3", "4", "5", "6", "7", "8", "9"}

RECURSIVE Flatten(_)
\* the concatenation of a sequence of strings
Flatten(ss) == IF ss = <<>> THEN <<>> ELSE Head(ss) \o Flatten(Tail(ss))

\* every text made of at most n pieces taken from the set pieces
Texts(pieces, n) ==
    {Flatten(ps) : ps \in UNION {[1..k -> pieces] : k \in 0..n}}

\* s[i:j] (0-based, j exclusive) for 0 <= i <= j <= len(s)
Slice(s, i, j) == SubSeq(s, i + 1, j)

\* the number of leading characters of s that are in the set cs
RECURSIVE LeadingIn(_, _)
LeadingIn(s, cs) ==
    IF s # <<>> /\ Head(s) \in cs THEN 1 + LeadingIn(Tail(s), cs) ELSE 0

\* the number of trailing characters of s that are in the set cs
RECURSIVE TrailingIn(_, _)
TrailingIn(s, cs) ==
    IF s # <<>> /\ s[Len(s)] \in cs
    THEN 1 + TrailingIn(SubSeq(s, 1, Len(s) - 1), cs) ELSE 0

lstrip(s, cs) == SubSeq(s, LeadingIn(s, cs) + 1, Len(s))
rstrip(s, cs) == SubSeq(s, 1, Len(s) - TrailingIn(s, cs))

\* s.strip(cs)
strip_chars(s, cs) == rstrip(lstrip(s, cs), cs)

\* s.strip(): the whitespace of the texts considered is the space
strip(s) == strip_chars(s, {" "})

\* s.isdigit()
isdigit(s) == s # <<>> /\ \A i \in 1..Len(s) : s[i] \in Digits

\* c in s
Contains(s, c) == \E i \in 1..Len(s) : s[i] = c

\* index (1-based) of the first c in s, which contains c
FirstIndex(s, c) == CHOOSE i \in 1..Len(s) : s[i] = c /\ \A j \in 1..(i - 1) : s[j] # c

(***************************************************************************)
(* Epoch detection (pyjdate.py)                                            *)
(***************************************************************************)
\* "return left.isdigit() and right.isdigit()" after raw.split(".", 1), where
\* dot is the index of the first "."
decimal_is_epoch(raw, dot) ==
    isdigit(SubSeq(raw, 1, dot - 1)) /\ isdigit(SubSeq(raw, dot + 1, Len(raw)))

\* A slip in the length test: 9 digits are enough.
unsigned_is_epoch_nine_digits(raw) ==
    IF raw = <<>> THEN FALSE
    ELSE IF Contains(raw, ".") THEN decimal_is_epoch(raw, FirstIndex(raw, "."))
    ELSE isdigit(raw) /\ Len(raw) >= 9

\* is_epoch_candidate once the sign is removed
unsigned_is_epoch(raw) ==
    IF raw = <<>> THEN FALSE
    ELSE IF Contains(raw, ".") THEN decimal_is_epoch(raw, FirstIndex(raw, "."))
    ELSE isdigit(raw) /\ Len(raw) >= 10

\* if raw.startswith(("+", "-")): raw = raw[1:]
drop_sign(raw) ==
    IF raw # <<>> /\ Head(raw) \in {"+", "-"} THEN Tail(raw) ELSE raw

is_epoch_candidate(value) == unsigned_is_epoch(drop_sign(strip(value)))

\* The branch parse_interval_endpoint takes: parse_epoch or parse_full_date
endpoint_route(value) ==
    IF is_epoch_candidate(value) THEN "epoch" ELSE "calendar"

(***************************************************************************)
(* Numbers.  A Python float read from a decimal literal is kept as the     *)
(* exact decimal fraction n / 10^k, written [n |-> n, k |-> k] with k as   *)
(* small as possible; sums and products with integers are exact.  A float *)
(* holds such a literal exactly enough for is_integer and int up to about  *)
(* 15 significant digits, which covers the texts considered here.          *)
(***************************************************************************)
RECURSIVE Pow10(_)
Pow10(k) == IF k = 0 THEN 1 ELSE 10 * Pow10(k - 1)

RECURSIVE Decimal(_, _)
Decimal(n, k) ==
    IF k > 0 /\ n % 10 = 0 THEN Decimal(n \div 10, k - 1) ELSE [n |-> n, k |-> k]

Zero == Decimal(0, 0)

\* x + y
DecAdd(x, y) ==
    IF x.k >= y.k THEN Decimal(x.n + y.n * Pow10(x.k - y.k), x.k)
    ELSE Decimal(x.n * Pow10(y.k - x.k) + y.n, y.k)

\* x * c for an integer c
DecTimes(x, c) == Decimal(x.n * c, x.k)

\* a double written as a short decimal fraction (see Doubles below)
IsShort(x) == "n" \in DOMAIN x

\* float.is_integer()
is_integer(x) == IF IsShort(x) THEN x.k = 0 ELSE x.e >= 0

\* int(x): the fraction is cut off, towards zero
int_of(x) ==
    IF x.n >= 0 THEN x.n \div Pow10(x.k) ELSE -((-x.n) \div Pow10(x.k))

DigitValue(c) ==
    CASE c = "0" -> 0 [] c = "1" -> 1 [] c = "2" -> 2 [] c = "3" -> 3
      [] c = "4" -> 4 [] c = "5" -> 5 [] c = "6" -> 6 [] c = "7" -> 7
      [] c = "8" -> 8 [] c = "9" -> 9

\* int(s) of a sequence of digits
RECURSIVE int_digits(_)
int_digits(s) ==
    IF s = <<>> THEN 0
    ELSE 10 * int_digits(SubSeq(s, 1, Len(s) - 1)) + DigitValue(s[Len(s)])

\* float(s) of digits, or of digits "." digits
unsigned_float(s) ==
    IF Contains(s, ".")
    THEN Decimal(int_digits(SelectSeq(s, LAMBDA c : c # ".")),
                 Len(s) - FirstIndex(s, "."))
    ELSE Decimal(int_digits(s), 0)

\* float(s) of an optional sign, digits and an optional "." digits
float(s) ==
    IF Head(s) = "-" THEN DecTimes(unsigned_float(Tail(s)), -1)
    ELSE IF Head(s) = "+" THEN unsigned_float(Tail(s))
    ELSE unsigned_float(s)

(***************************************************************************)
(* Doubles.  The floats of the interval parser are IEEE 754 binary64       *)
(* numbers.  A double that is a short decimal fraction (a whole number or  *)
(* a binary fraction with |n| < 2^30) is written as that fraction          *)
(* [n, k]; any other double is written [sign, m, e]: its 53 binary digits  *)
(* m, as limbs of 15 digits with the least significant limb first, times   *)
(* 2^e.  Sums and products are rounded to 53 binary digits, halves to      *)
(* even.  The exponents of the texts considered here stay far from the     *)
(* subnormal and the overflow range, and their literals have at most four  *)
(* decimals.                                                               *)
(***************************************************************************)
RECURSIVE Pow5(_)
Pow5(k) == IF k = 0 THEN 1 ELSE 5 * Pow5(k - 1)

Limb == 32768

\* the limbs of a natural number
RECURSIVE BigOf(_)
BigOf(n) == IF n = 0 THEN <<>> ELSE <<n % Limb>> \o BigOf(n \div Limb)

RECURSIVE IntBitLen(_)
IntBitLen(n) == IF n = 0 THEN 0 ELSE 1 + IntBitLen(n \div 2)

\* the number of binary digits of m
BitLen(m) ==
    IF m = <<>> THEN 0 ELSE 15 * (Len(m) - 1) + IntBitLen(m[Len(m)])

RECURSIVE StripTop(_)
StripTop(m) ==
    IF m # <<>> /\ m[Len(m)] = 0 THEN StripTop(SubSeq(m, 1, Len(m) - 1))
    ELSE m

LowLimb(m) == IF m = <<>> THEN 0 ELSE m[1]
HighLimbs(m) == IF m = <<>> THEN <<>> ELSE Tail(m)

\* a + b + carry
RECURSIVE AddBig(_, _, _)
AddBig(a, b, carry) ==
    IF a = <<>> /\ b = <<>> THEN (IF carry = 0 THEN <<>> ELSE <<carry>>)
    ELSE <<(LowLimb(a) + LowLimb(b) + carry) % Limb>>
         \o AddBig(HighLimbs(a), HighLimbs(b),
                   (LowLimb(a) + LowLimb(b) + carry) \div Limb)

\* a - b - borrow for a >= b + borrow (limbs of zero may be left on top)
RECURSIVE SubBig(_, _, _)
SubBig(a, b, borrow) ==
    IF a = <<>> THEN <<>>
    ELSE <<(LowLimb(a) - LowLimb(b) - borrow + Limb) % Limb>>
         \o SubBig(HighLimbs(a), HighLimbs(b),
                   IF LowLimb(a) - LowLimb(b) - borrow < 0 THEN 1 ELSE 0)

\* a < b
RECURSIVE LessBig(_, _)
LessBig(a, b) ==
    IF Len(a) # Len(b) THEN Len(a) < Len(b)
    ELSE IF a = <<>> THEN FALSE
    ELSE IF a[Len(a)] # b[Len(b)] THEN a[Len(a)] < b[Len(b)]
    ELSE LessBig(SubSeq(a, 1, Len(a) - 1), SubSeq(b, 1, Len(b) - 1))

\* m * c + carry for 0 <= c < Limb
RECURSIVE MulBig(_, _, _)
MulBig(m, c, carry) ==
    IF m = <<>> THEN BigOf(carry)
    ELSE <<(m[1] * c + carry) % Limb>>
         \o MulBig(Tail(m), c, (m[1] * c + carry) \div Limb)

\* m * 2^k
ShiftLeft(m, k) ==
    IF m = <<>> THEN <<>>
    ELSE [i \in 1..(k \div 15) |-> 0] \o MulBig(m, 2 ^ (k % 15), 0)

\* the quotient (limbs of zero may be left on top) and the remainder of m
\* by d, for 0 < d < 2 * Limb, given the remainder r of the limbs above m
DivJoin(rest, top) == [q |-> Append(rest.q, top), r |-> rest.r]

RECURSIVE DivBig(_, _, _)
DivBig(m, d, r) ==
    IF m = <<>> THEN [q |-> <<>>, r |-> r]
    ELSE DivJoin(DivBig(SubSeq(m, 1, Len(m) - 1), d,
                        (r * Limb + m[Len(m)]) % d),
                 (r * Limb + m[Len(m)]) \div d)

\* m \div 2^k, and whether a digit that was cut off is 1
cut_low(m, k, q) ==
    [q |-> StripTop(q.q),
     sticky |-> q.r # 0 \/ \E i \in 1..(k \div 15) : m[i] # 0]

ShiftRight(m, k) ==
    cut_low(m, k, DivBig(SubSeq(m, (k \div 15) + 1, Len(m)), 2 ^ (k % 15), 0))

\* 53 digits, or 54 when rounding up has carried into a new digit
with_53_digits(sign, m, e) ==
    IF BitLen(m) = 54
    THEN [sign |-> sign, m |-> StripTop(DivBig(m, 2, 0).q), e |-> e + 1]
    ELSE [sign |-> sign, m |-> m, e |-> e]

\* h holds the 54 leading digits of a number: the last of them, sticky and
\* the digit before it decide whether the 53 digits are rounded up
round_half(sign, h, e, sticky) ==
    with_53_digits(
        sign,
        IF h.q[1] % 2 = 1 /\ (sticky \/ h.sticky \/ (h.q[1] \div 2) % 2 = 1)
        THEN AddBig(StripTop(DivBig(h.q, 2, 0).q), <<1>>, 0)
        ELSE StripTop(DivBig(h.q, 2, 0).q),
        e)

\* sign * m * 2^e rounded to a double (sticky: the number is a little more
\* than m * 2^e)
Round53(sign, m, e, sticky) ==
    IF m = <<>> THEN [sign |-> 1, m |-> <<>>, e |-> 0]
    ELSE IF BitLen(m) <= 53
    THEN [sign |-> sign, m |-> ShiftLeft(m, 53 - BitLen(m)),
          e |-> e - (53 - BitLen(m))]
    ELSE round_half(sign, ShiftRight(m, BitLen(m) - 54), e + BitLen(m) - 53,
                    sticky)

\* an odd number times 2^e as a short decimal fraction, if it is one
RECURSIVE short_of(_, _, _)
short_of(sign, v, e) ==
    IF v % 2 = 0 THEN short_of(sign, v \div 2, e + 1)
    ELSE IF e >= 0
    THEN IF IntBitLen(v) + e <= 30 THEN <<Decimal(sign * v * (2 ^ e), 0)>>
         ELSE <<>>
    ELSE IF -e <= 12 /\ v <= 1073741823 \div Pow5(-e)
    THEN <<Decimal(sign * v * Pow5(-e), -e)>>
    ELSE <<>>

\* the way a double of 53 digits is written
Canon(b) ==
    IF b.m = <<>> THEN Zero
    ELSE IF /\ b.m[1] = 0 /\ b.m[2] % 256 = 0
            /\ short_of(b.sign, (b.m[2] \div 256) + b.m[3] * 128
                                    + b.m[4] * 4194304, b.e + 23) # <<>>
    THEN short_of(b.sign, (b.m[2] \div 256) + b.m[3] * 128
                              + b.m[4] * 4194304, b.e + 23)[1]
    ELSE b

\* the digits and the exponent of a double, however it is written
Binary(x) ==
    IF IsShort(x)
    THEN [sign |-> IF x.n < 0 THEN -1 ELSE 1,
          m |-> BigOf((IF x.n < 0 THEN -x.n ELSE x.n) \div Pow5(x.k)),
          e |-> -x.k]
    ELSE x

\* sign * (q.q + q.r / d) * 2^-75 rounded to a double
RoundQuotient(sign, q) == Round53(sign, StripTop(q.q), -75, q.r # 0)

\* the double nearest to the decimal fraction a literal stands for
binary64(x) ==
    IF x.n % Pow5(x.k) = 0 THEN x
    ELSE Canon(RoundQuotient(IF x.n < 0 THEN -1 ELSE 1,
                             DivBig(ShiftLeft(BigOf(IF x.n < 0 THEN -x.n
                                                    ELSE x.n), 75),
                                    Pow10(x.k), 0)))

\* float(s) as the parser of intervals uses it
float64(s) == binary64(float(s))

\* the digits of x and y brought to the smaller of the two exponents
Aligned(x, y) ==
    [e |-> IF x.e < y.e THEN x.e ELSE y.e,
     xs |-> x.sign, ys |-> y.sign,
     xm |-> ShiftLeft(x.m, IF x.e > y.e THEN x.e - y.e ELSE 0),
     ym |-> ShiftLeft(y.m, IF y.e > x.e THEN y.e - x.e ELSE 0)]

add_aligned(a) ==
    IF a.xs = a.ys THEN Round53(a.xs, AddBig(a.xm, a.ym, 0), a.e, FALSE)
    ELSE IF LessBig(a.xm, a.ym)
    THEN Round53(a.ys, StripTop(SubBig(a.ym, a.xm, 0)), a.e, FALSE)
    ELSE Round53(a.xs, StripTop(SubBig(a.xm, a.ym, 0)), a.e, FALSE)

\* x + y of two floats
float_add(x, y) ==
    IF IsShort(x) /\ IsShort(y) THEN DecAdd(x, y)
    ELSE Canon(add_aligned(Aligned(Binary(x), Binary(y))))

\* x * c of a float and an int, |c| < 2^15
float_times(x, c) ==
    IF IsShort(x) THEN DecTimes(x, c)
    ELSE IF c = 0 THEN Zero
    ELSE Canon(Round53(IF c < 0 THEN -x.sign ELSE x.sign,
                       MulBig(x.m, IF c < 0 THEN -c ELSE c, 0), x.e, FALSE))

(***************************************************************************)
(* TOKEN_RE (pytime.py) and re.finditer                                    *)
(***************************************************************************)
LowerCase == <<"a", "b", "c", "d", "e", "f", "g", "h", "i", "j", "k", "l", "m", "n", "o", "p", "q", "r", "s", "t", "u", "v", "w", "x", "y", "z">>
UpperCase == <<"A", "B", "C", "D", "E", "F", "G", "H", "I", "J", "K", "L", "M", "N", "O", "P", "Q", "R", "S", "T", "U", "V", "W", "X", "Y", "Z">>
Letters == {LowerCase[i] : i \in 1..26} \cup {UpperCase[i] : i \in 1..26}

\* c.lower()
lower_char(c) ==
    IF \E i \in 1..26 : UpperCase[i] = c
    THEN LowerCase[CHOOSE i \in 1..26 : UpperCase[i] = c] ELSE c

\* s.lower()
lower(s) == [i \in 1..Len(s) |-> lower_char(s[i])]

\* the character at the 1-based index i, "" past the end of the text
At(s, i) == IF i \in 1..Len(s) THEN s[i] ELSE ""

\* the length of the longest run of characters of cs that starts at index i
RunAt(s, i, cs) == IF i > Len(s) THEN 0 ELSE LeadingIn(SubSeq(s, i, Len(s)), cs)

\* [+-]? at index i: the index after the optional sign
AfterSign(s, i) == IF At(s, i) \in {"+", "-"} THEN i + 1 ELSE i

NoMatch == [kind |-> "none", start |-> 0, end |-> 0, vend |-> 0, ustart |-> 0]

\* (?:\.\d+)? at index e of the time alternative: the index after it
time_fraction_end(s, e) ==
    IF At(s, e) = "." /\ RunAt(s, e + 1, Digits) >= 1
    THEN e + 1 + RunAt(s, e + 1, Digits) ELSE e

\* (?::\d{2}(?:\.\d+)?)? at index e: the index after it
time_seconds_end(s, e) ==
    IF At(s, e) = ":" /\ RunAt(s, e + 1, Digits) >= 2
    THEN time_fraction_end(s, e + 3) ELSE e

\* \d+:\d{2}... with the digits starting at index p: the index after the
\* match, 0 when there is none
time_end(s, p) ==
    IF /\ RunAt(s, p, Digits) >= 1
       /\ At(s, p + RunAt(s, p, Digits)) = ":"
       /\ RunAt(s, p + RunAt(s, p, Digits) + 1, Digits) >= 2
    THEN time_seconds_end(s, p + RunAt(s, p, Digits) + 3)
    ELSE 0

\* the (?P<time>...) alternative at index i
match_time(s, i) ==
    IF time_end(s, AfterSign(s, i)) = 0 THEN NoMatch
    ELSE [kind |-> "time", start |-> i, end |-> time_end(s, AfterSign(s, i)),
          vend |-> 0, ustart |-> 0]

\* \d+(?:\.\d+)? with the digits starting at index p, which has a digit:
\* the index after the number
value_end(s, p) ==
    IF /\ At(s, p + RunAt(s, p, Digits)) = "."
       /\ RunAt(s, p + RunAt(s, p, Digits) + 1, Digits) >= 1
    THEN p + RunAt(s, p, Digits) + 1
           + RunAt(s, p + RunAt(s, p, Digits) + 1, Digits)
    ELSE p + RunAt(s, p, Digits)

\* \s*(?P<unit>[A-Za-z]+) after a number that ends before index v
match_unit_after(s, i, v) ==
    IF RunAt(s, v + RunAt(s, v, {" "}), Letters) >= 1
    THEN [kind |-> "unit", start |-> i,
          end |-> v + RunAt(s, v, {" "})
                    + RunAt(s, v + RunAt(s, v, {" "}), Letters),
          vend |-> v, ustart |-> v + RunAt(s, v, {" "})]
    ELSE NoMatch

\* the (?P<value>...)\s*(?P<unit>...) alternative at index i
match_unit(s, i) ==
    IF RunAt(s, AfterSign(s, i), Digits) >= 1
    THEN match_unit_after(s, i, value_end(s, AfterSign(s, i)))
    ELSE NoMatch

\* TOKEN_RE.match(s, i): the first alternative that matches wins
match_at(s, i) ==
    IF match_time(s, i).kind # "none" THEN match_time(s, i) ELSE match_unit(s, i)

\* the next match of TOKEN_RE.finditer at or after index i
RECURSIVE find_match(_, _)
find_match(s, i) ==
    IF i > Len(s) THEN NoMatch
    ELSE IF match_at(s, i).kind # "none" THEN match_at(s, i)
    ELSE find_match(s, i + 1)

UNIT_ALIASES ==
    {<<<<"y", "e", "a", "r">>, "years">>,
     <<<<"y", "e", "a", "r", "s">>, "years">>,
     <<<<"y", "r">>, "years">>,
     <<<<"y", "r", "s">>, "years">>,
     <<<<"y">>, "years">>,
     <<<<"m", "o", "n", "t", "h">>, "months">>,
     <<<<"m", "o", "n", "t", "h", "s">>, "months">>,
     <<<<"m", "o", "n">>, "months">>,
     <<<<"m", "o", "n", "s">>, "months">>,
     <<<<"w", "e", "e", "k">>, "weeks">>,
     <<<<"w", "e", "e", "k", "s">>, "weeks">>,
     <<<<"w">>, "weeks">>,
     <<<<"d", "a", "y">>, "days">>,
     <<<<"d", "a", "y", "s">>, "days">>,
     <<<<"d">>, "days">>,
     <<<<"h", "o", "u", "r">>, "hours">>,
     <<<<"h", "o", "u", "r", "s">>, "hours">>,
     <<<<"h", "r">>, "hours">>,
     <<<<"h", "r", "s">>, "hours">>,
     <<<<"h">>, "hours">>,
     <<<<"m", "i", "n", "u", "t", "e">>, "minutes">>,
     <<<<"m", "i", "n", "u", "t", "e", "s">>, "minutes">>,
     <<<<"m", "i", "n">>, "minutes">>,
     <<<<"m", "i", "n", "s">>, "minutes">>,
     <<<<"m">>, "minutes">>,
     <<<<"s", "e", "c", "o", "n", "d">>, "seconds">>,
     <<<<"s", "e", "c", "o", "n", "d", "s">>, "seconds">>,
     <<<<"s", "e", "c">>, "seconds">>,
     <<<<"s", "e", "c", "s">>, "seconds">>,
     <<<<"s">>, "seconds">>}

\* UNIT_ALIASES.get(word): the unit key, "None" for an unknown word
unit_alias(word) ==
    IF \E a \in UNIT_ALIASES : a[1] = word
    THEN (CHOOSE a \in UNIT_ALIASES : a[1] = word)[2]
    ELSE "None"

(***************************************************************************)
(* parse_pg_interval (pytime.py)                                           *)
(***************************************************************************)
\* IntervalDelta(): years and months are integers, days and seconds floats
ZeroDelta == [years |-> 0, months |-> 0, days |-> Zero, seconds |-> Zero]

\* the delta returned, or the ClickException raised
Success(delta) == [status |-> "ok", error |-> "none", delta |-> delta]
Failure(error) == [status |-> "error", error |-> error, delta |-> ZeroDelta]

\* hours * 3600 + minutes * 60 + seconds of the payload "H:MM" or "H:MM:SS[.f]"
\* whose first ":" is at index c
time_literal_seconds(payload, c) ==
    IF Len(payload) > c + 2
    THEN float_add(Decimal(int_digits(SubSeq(payload, 1, c - 1)) * 3600
                           + int_digits(SubSeq(payload, c + 1, c + 2)) * 60,
                           0),
                   binary64(unsigned_float(SubSeq(payload, c + 4,
                                                  Len(payload)))))
    ELSE Decimal(int_digits(SubSeq(payload, 1, c - 1)) * 3600
                 + int_digits(SubSeq(payload, c + 1, c + 2)) * 60, 0)

\* A slip in the sign: it is applied to the hours only, so that "-0:30"
\* counts as plus 1800 seconds.
time_literal_total_sign_on_hours(value) ==
    IF Head(value) = "-"
    THEN float_add(time_literal_seconds(drop_sign(value),
                                        FirstIndex(drop_sign(value), ":")),
                   Decimal(-7200 * int_digits(SubSeq(drop_sign(value), 1,
                               FirstIndex(drop_sign(value), ":") - 1)), 0))
    ELSE time_literal_seconds(drop_sign(value),
                              FirstIndex(drop_sign(value), ":"))

\* total_seconds of _add_time_literal
time_literal_total(value) ==
    float_times(time_literal_seconds(drop_sign(value),
                                     FirstIndex(drop_sign(value), ":")),
                IF Head(value) = "-" THEN -1 ELSE 1)

_add_time_literal(delta, value) ==
    [years |-> delta.years, months |-> delta.months, days |-> delta.days,
     seconds |-> float_add(delta.seconds, time_literal_total(value))]

_apply_interval_token(delta, unit, value) ==
    CASE unit = "years" ->
           [years |-> delta.years + int_of(value), months |-> delta.months,
            days |-> delta.days, seconds |-> delta.seconds]
      [] unit = "months" ->
           [years |-> delta.years, months |-> delta.months + int_of(value),
            days |-> delta.days, seconds |-> delta.seconds]
      [] unit = "weeks" ->
           [years |-> delta.years, months |-> delta.months,
            days |-> float_add(delta.days, float_times(value, 7)),
            seconds |-> delta.seconds]
      [] unit = "days" ->
           [years |-> delta.years, months |-> delta.months,
            days |-> float_add(delta.days, value), seconds |-> delta.seconds]
      [] unit = "hours" ->
           [years |-> delta.years, months |-> delta.months, days |-> delta.days,
            seconds |-> float_add(delta.seconds, float_times(value, 3600))]
      [] unit = "minutes" ->
           [years |-> delta.years, months |-> delta.months, days |-> delta.days,
            seconds |-> float_add(delta.seconds, float_times(value, 60))]
      [] unit = "seconds" ->
           [years |-> delta.years, months |-> delta.months, days |-> delta.days,
            seconds |-> float_add(delta.seconds, value)]

\* raw[i:j].strip(" ,") is not empty (i, j are Python's 0-based indices)
residue(raw, i, j) == strip_chars(Slice(raw, i, j), {" ", ","}) # <<>>

\* A slip: a fractional year or month is truncated instead of rejected.
fractional_calendar_unit_never(unit_key, numeric) == FALSE

\* unit_key in ("years", "months") and not numeric.is_integer()
fractional_calendar_unit(unit_key, numeric) ==
    unit_key \in {"years", "months"} /\ ~is_integer(numeric)

\* A slip: the text after the last token is not looked at.
trailing_residue_ignored(raw, pos) == FALSE

\* raw[pos:].strip(" ,") is not empty
trailing_residue(raw, pos) == residue(raw, pos, Len(raw))

RECURSIVE parse_tokens(_, _, _, _)
RECURSIVE parse_match(_, _, _, _, _)
RECURSIVE parse_unit(_, _, _, _, _)

\* the body of the for loop for a value/unit match m
parse_unit(raw, m, delta, unit_key, numeric) ==
    IF unit_key = "None" THEN Failure("Unknown interval unit")
    ELSE IF fractional_calendar_unit(unit_key, numeric)
    THEN Failure("must be whole numbers")
    ELSE parse_tokens(raw, m.end - 1,
                      _apply_interval_token(delta, unit_key, numeric), TRUE)

\* one round of the for loop, m being the next match of finditer (if any),
\* and the checks after the loop
parse_match(raw, pos, delta, matched, m) ==
    IF m.kind = "none"
    THEN IF trailing_residue(raw, pos)
         THEN Failure("Invalid interval segment")
         ELSE IF ~matched THEN Failure("Interval format not recognized")
         ELSE Success(delta)
    ELSE IF residue(raw, pos, m.start - 1)
    THEN Failure("Invalid interval segment")
    ELSE IF m.kind = "time"
    THEN parse_tokens(raw, m.end - 1,
                      _add_time_literal(delta, SubSeq(raw, m.start, m.end - 1)),
                      TRUE)
    ELSE parse_unit(raw, m, delta,
                    unit_alias(lower(SubSeq(raw, m.ustart, m.end - 1))),
                    float64(SubSeq(raw, m.start, m.vend - 1)))

\* the for loop from position pos (0-based) on
parse_tokens(raw, pos, delta, matched) ==
    parse_match(raw, pos, delta, matched, find_match(raw, pos + 1))

stripped_pg_interval(raw) ==
    IF raw = <<>> THEN Failure("Interval cannot be empty")
    ELSE parse_tokens(raw, 0, ZeroDelta, FALSE)

parse_pg_interval(value) == stripped_pg_interval(strip(value))

(***************************************************************************)
(* Specification SpecEpoch: parse_interval_endpoint chooses between the    *)
(* epoch parser and the calendar-date parser                               *)
(***************************************************************************)
\* the raw value is made of at most MaxEpochPieces pieces
MaxEpochPieces == 5

\* one digit, eight digits (the shape of YYYYMMDD), and the other
\* characters the detection looks at
EpochPieces == {<<"1">>, <<"2", "0", "2", "6", "0", "1", "0", "4">>,
                <<".">>, <<"-">>, <<"+">>, <<" ">>}

InitEpoch ==
    /\ local_off = 0
    /\ ep_pc = "input"
    /\ ep_raw \in Texts(EpochPieces, MaxEpochPieces)
    /\ ep_route = "none"
    /\ CalOff /\ DfOff /\ IvOff /\ PgOff /\ OtherOff

\* parse_interval_endpoint(calendar, ep_raw), up to the choice of the parser
ParseIntervalEndpoint ==
    /\ ep_pc = "input"
    /\ ep_route' = endpoint_route(ep_raw)
    /\ ep_pc' = "parsed"
    /\ UNCHANGED <<calVars, local_off, dfVars, ivVars, ep_raw,
                   pgVars, otherVars>>

NextEpoch == ParseIntervalEndpoint

SpecEpoch == InitEpoch /\ [][NextEpoch]_vars

\* s is one or more digits
IsDigits(s) == Len(s) >= 1 /\ \A i \in 1..Len(s) : s[i] \in Digits

\* s is an optional sign, at least minInt digits and, when required or
\* allowed, a single "." followed by at least one digit
NumberShape(s, minInt, fraction) ==
    \E a \in 0..1 : \E b \in a..Len(s) :
        /\ a = 1 => s[1] \in {"+", "-"}
        /\ b - a >= minInt
        /\ IsDigits(Slice(s, a, b))
        /\ \/ b = Len(s) /\ fraction # "required"
           \/ /\ fraction # "none"
              /\ b + 2 <= Len(s)
              /\ s[b + 1] = "."
              /\ IsDigits(Slice(s, b + 1, Len(s)))

\* the value with the surrounding blanks removed
EpochValue == strip_chars(ep_raw, {" "})

\* C6: a raw value is treated as a Unix timestamp if and only if it is an
\* optional sign, digits and an optional single "." followed by digits, with
\* at least 10 integer digits; every other value, a short decimal such as
\* "12.5" included, goes to the calendar-date parser.
C6_EpochTenIntegerDigits ==
    ep_pc = "parsed" =>
        (ep_route = "epoch" <=> NumberShape(EpochValue, 10, "optional"))

\* C6 as amended: a raw value is treated as a Unix timestamp if and only if,
\* after an optional sign, it is either at least 10 digits without a ".", or
\* digits (one or more) followed by a single "." and digits; every other
\* value goes to the calendar-date parser.
C6_EpochAmended ==
    ep_pc = "parsed" =>
        /\ ep_route = "epoch" <=> \/ NumberShape(EpochValue, 10, "none")
                                  \/ NumberShape(EpochValue, 1, "required")
        /\ ep_route = "calendar" <=> ~(\/ NumberShape(EpochValue, 10, "none")
                                       \/ NumberShape(EpochValue, 1, "required"))

\* the short decimal "1.1" has been routed to the epoch parser
C6_Witness ==
    /\ ep_pc = "parsed"
    /\ ep_raw = <<"1", ".", "1">>
    /\ ep_route = "epoch"

(***************************************************************************)
(* Specification SpecInterval: parse_pg_interval on a bounded set of texts *)
(***************************************************************************)
\* a free text is made of at most MaxPgPieces pieces
MaxPgPieces == 4

\* a token text is made of at most MaxPgTokens tokens
MaxPgTokens == 2

PgPieces == {<<"3">>, <<"0">>, <<".">>, <<":">>, <<" ">>, <<",">>,
             <<"d", "a", "y", "s">>, <<"b", "o", "g", "u", "s">>}

\* numbers, whole and fractional, that go with every word
PgNumbers == {<<"3">>, <<"2", ".", "5">>}

\* numbers that go with the year and with the unknown word: whole, whole
\* with a fraction of zero, negative
PgMoreNumbers == {<<"5">>, <<"2", ".", "0">>, <<"-", "1">>}

\* one alias of each unit, and a word that is no unit
PgWords == {<<"y", "e", "a", "r", "s">>, <<"m", "o", "n">>, <<"w">>,
            <<"d", "a", "y", "s">>, <<"h", "r", "s">>, <<"M", "i", "n">>,
            <<"s">>, <<"b", "o", "g", "u", "s">>}

PgMoreWords == {<<"y", "e", "a", "r", "s">>, <<"b", "o", "g", "u", "s">>}

\* clock literals
PgClocks == {<<"-", "0", ":", "3", "0">>,
             <<"1", ":", "3", "0", ":", "1", "5", ".", "5">>}

\* a number, a blank and a word, or a clock literal, followed by a blank
PgTokens == {n \o <<" ">> \o w \o <<" ">> : n \in PgNumbers, w \in PgWords}
            \cup {n \o <<" ">> \o w \o <<" ">>
                     : n \in PgMoreNumbers, w \in PgMoreWords}
            \cup {c \o <<" ">> : c \in PgClocks}

\* a text of fractions is made of at most MaxFractionTokens tokens
MaxFractionTokens == 3

\* fractions of which only 0.5 is a double without rounding
PgFractions == {<<"0", ".", "1">>, <<"0", ".", "2">>, <<"0", ".", "3">>,
                <<"0", ".", "5">>}

PgFractionWords == {<<"s">>, <<"d", "a", "y", "s">>}

FractionTokens ==
    {n \o <<" ">> \o w \o <<" ">> : n \in PgFractions, w \in PgFractionWords}

InitInterval ==
    /\ local_off = 0
    /\ pg_pc = "input"
    /\ pg_raw \in Texts(PgPieces, MaxPgPieces) \cup Texts(PgTokens, MaxPgTokens)
                    \cup Texts(FractionTokens, MaxFractionTokens)
    /\ pg_out = NoOutcome
    /\ CalOff /\ DfOff /\ IvOff /\ EpOff /\ OtherOff

\* parse_pg_interval(pg_raw)
ParsePgInterval ==
    /\ pg_pc = "input"
    /\ pg_out' = parse_pg_interval(pg_raw)
    /\ pg_pc' = "parsed"
    /\ UNCHANGED <<calVars, local_off, dfVars, ivVars, epVars,
                   pg_raw, otherVars>>

NextInterval == ParsePgInterval

SpecInterval == InitInterval /\ [][NextInterval]_vars

\* the text parse_pg_interval works on
PgText == strip(pg_raw)

\* The token grammar, read as a grammar and not as a scan: the sets of
\* indices at which a piece of a token that starts at a given index may end.
\* the ends q of the non-empty digit strings s[p .. q-1]
DigitEnds(s, p) ==
    {q \in (p + 1)..(Len(s) + 1) : \A k \in p..(q - 1) : s[k] \in Digits}

\* the ends of the fractions ".digits" that start at index q (q itself when
\* the fraction is left out)
FractionEnds(s, q) ==
    {q} \cup (IF At(s, q) = "." THEN DigitEnds(s, q + 1) ELSE {})

\* the ends of the numbers [+-]digits[.digits] that start at index i
NumberEnds(s, i) ==
    UNION {FractionEnds(s, q) : q \in DigitEnds(s, AfterSign(s, i))}

\* the ends of the runs of blanks (empty ones included) that start at v
BlankEnds(s, v) ==
    {u \in v..(Len(s) + 1) : \A k \in v..(u - 1) : s[k] = " "}

\* the ends of the words (letters only) that start at index u
WordEnds(s, u) ==
    {j \in (u + 1)..(Len(s) + 1) : \A k \in u..(j - 1) : s[k] \in Letters}

\* the word s[u .. j-1] names a unit
KnownUnit(s, u, j) == unit_alias(lower(SubSeq(s, u, j - 1))) # "None"

\* the ends of the tokens "number blanks unit-word" that start at index i
UnitTokenEnds(s, i) ==
    UNION {UNION {{j \in WordEnds(s, u) : KnownUnit(s, u, j)}
                  : u \in BlankEnds(s, v)} : v \in NumberEnds(s, i)}

\* the two digits s[p], s[p+1]
TwoDigits(s, p) == At(s, p) \in Digits /\ At(s, p + 1) \in Digits

\* the ends of ":SS[.f]" at index e (e itself when it is left out)
ClockSecondEnds(s, e) ==
    {e} \cup (IF At(s, e) = ":" /\ TwoDigits(s, e + 1)
             THEN FractionEnds(s, e + 3) ELSE {})

\* the ends of the clock literals [+-]H:MM[:SS[.f]] that start at index i
ClockEnds(s, i) ==
    UNION {IF At(s, q) = ":" /\ TwoDigits(s, q + 1)
           THEN ClockSecondEnds(s, q + 3) ELSE {}
           : q \in DigitEnds(s, AfterSign(s, i))}

\* s from index i on is made of blanks, commas, clock literals and numbers
\* followed by a known unit word, and of nothing else
RECURSIVE CoveredFrom(_, _)
CoveredFrom(s, i) ==
    IF i > Len(s) THEN TRUE
    ELSE IF s[i] \in {" ", ","} THEN CoveredFrom(s, i + 1)
    ELSE \E j \in ClockEnds(s, i) \cup UnitTokenEnds(s, i) : CoveredFrom(s, j)

\* text other than blanks and commas is left between or after the tokens
Leftover(s) == ~CoveredFrom(s, 1)

\* a number of s is followed, after blanks or directly, by a letter
HasNumberWord(s) ==
    \E i \in 1..Len(s) : \E v \in NumberEnds(s, i) :
        \E u \in BlankEnds(s, v) : At(s, u) \in Letters

\* s starts with a number followed by a whole word that names no unit
StartsWithUnknownUnit(s) ==
    \E v \in NumberEnds(s, 1) : \E u \in BlankEnds(s, v) :
        \E j \in WordEnds(s, u) :
            At(s, j) \notin Letters /\ ~KnownUnit(s, u, j)

\* "3 days 5 bogus"
ThreeDaysFiveBogus ==
    <<"3", " ", "d", "a", "y", "s", " ", "5", " ", "b", "o", "g", "u", "s">>

FractionalNumber(s, i, v) ==
    \E d \in i..(v - 1) :
        s[d] = "." /\ \E k \in (d + 1)..(v - 1) : s[k] # "0"

\* the word s[u .. j-1] names the years or the months
CalendarUnit(s, u, j) ==
    unit_alias(lower(SubSeq(s, u, j - 1))) \in {"years", "months"}

\* s holds, at index i, a fractional number followed by letters that spell
\* a year or month word
FractionalCalendarShapeAt(s, i) ==
    \E v \in NumberEnds(s, i) : \E u \in BlankEnds(s, v) :
        \E j \in WordEnds(s, u) :
            FractionalNumber(s, i, v) /\ CalendarUnit(s, u, j)

\* s holds, at index i, a fractional number followed by a whole word that
\* names the years or the months
FractionalCalendarTokenAt(s, i) ==
    \E v \in NumberEnds(s, i) : \E u \in BlankEnds(s, v) :
        \E j \in WordEnds(s, u) :
            /\ FractionalNumber(s, i, v)
            /\ At(s, j) \notin Letters
            /\ CalendarUnit(s, u, j)

\* s is one token: the number n, a blank and the word w
OneToken(s, n, w) == s = n \o <<" ">> \o w

\* the delta of n units of an exact duration: weeks and days go to the
\* days, hours, minutes and seconds to the seconds
DurationDelta(unit, n) ==
    CASE unit = "weeks" ->
           [years |-> 0, months |-> 0, days |-> float_times(float64(n), 7),
            seconds |-> Zero]
      [] unit = "days" ->
           [years |-> 0, months |-> 0, days |-> float64(n), seconds |-> Zero]
      [] unit = "hours" ->
           [years |-> 0, months |-> 0, days |-> Zero,
            seconds |-> float_times(float64(n), 3600)]
      [] unit = "minutes" ->
           [years |-> 0, months |-> 0, days |-> Zero,
            seconds |-> float_times(float64(n), 60)]
      [] unit = "seconds" ->
           [years |-> 0, months |-> 0, days |-> Zero, seconds |-> float64(n)]

IsUnitToken(t, n, w) == t = n \o <<" ">> \o w \o <<" ">>

\* the token t is the clock literal c and a blank
IsClockToken(t, c) == t = c \o <<" ">>

TokenNumbers == PgNumbers \cup PgMoreNumbers \cup PgFractions

AllTokens == PgTokens \cup FractionTokens

\* the delta as stated for n units: year -> years, month -> months,
\* week -> days (x7), day -> days, hour/minute/second -> seconds
\* (x3600/x60/x1), every other field zero
StatedUnitDelta(unit, n) ==
    [years |-> IF unit = "years" THEN int_of(float64(n)) ELSE 0,
     months |-> IF unit = "months" THEN int_of(float64(n)) ELSE 0,
     days |-> CASE unit = "weeks" -> float_times(float64(n), 7)
                [] unit = "days" -> float64(n)
                [] OTHER -> Zero,
     seconds |-> CASE unit = "hours" -> float_times(float64(n), 3600)
                   [] unit = "minutes" -> float_times(float64(n), 60)
                   [] unit = "seconds" -> float64(n)
                   [] OTHER -> Zero]

\* the seconds of the unsigned clock literal p whose first ":" is at index c
StatedClockSeconds(p, c) ==
    float_add(Decimal(3600 * int_digits(SubSeq(p, 1, c - 1))
                      + 60 * int_digits(SubSeq(p, c + 1, c + 2)), 0),
              IF Len(p) > c + 2
              THEN binary64(unsigned_float(SubSeq(p, c + 4, Len(p))))
              ELSE Zero)

\* the delta as stated for a clock literal: seconds only, scaled by its sign
StatedClockDelta(c) ==
    [years |-> 0, months |-> 0, days |-> Zero,
     seconds |-> float_times(StatedClockSeconds(drop_sign(c),
                                                FirstIndex(drop_sign(c), ":")),
                             IF Head(c) = "-" THEN -1 ELSE 1)]

\* the token is one parse_pg_interval takes: a clock literal, or a number
\* with a unit word, whole when the unit is the year or the month
AcceptedToken(t) ==
    \/ \E c \in PgClocks : IsClockToken(t, c)
    \/ \E n \in TokenNumbers : \E w \in PgWords :
          /\ IsUnitToken(t, n, w)
          /\ unit_alias(lower(w)) # "None"
          /\ unit_alias(lower(w)) \in {"years", "months"}
                => is_integer(float64(n))

StatedTokenDelta(t) ==
    IF \E c \in PgClocks : IsClockToken(t, c)
    THEN StatedClockDelta(CHOOSE c \in PgClocks : IsClockToken(t, c))
    ELSE LET nw == CHOOSE nw \in TokenNumbers \X PgWords :
                       IsUnitToken(t, nw[1], nw[2])
         IN StatedUnitDelta(unit_alias(lower(nw[2])), nw[1])

AddDelta(x, y) ==
    [years |-> x.years + y.years, months |-> x.months + y.months,
     days |-> float_add(x.days, y.days),
     seconds |-> float_add(x.seconds, y.seconds)]

\* t is a prefix of s
StartsWith(s, t) == Len(t) <= Len(s) /\ SubSeq(s, 1, Len(t)) = t

\* the first token of a text of tokens, and the text after it
FirstToken(s) == CHOOSE t \in AllTokens : StartsWith(s, t)
AfterFirstToken(s) == SubSeq(s, Len(FirstToken(s)) + 1, Len(s))

\* s is a text of accepted tokens
RECURSIVE IsAcceptedText(_)
IsAcceptedText(s) ==
    \/ s = <<>>
    \/ /\ \E t \in AllTokens : StartsWith(s, t)
       /\ AcceptedToken(FirstToken(s))
       /\ IsAcceptedText(AfterFirstToken(s))

\* the stated deltas of the tokens of s added to acc one after the other,
\* as floats
RECURSIVE StatedFrom(_, _)
StatedFrom(acc, s) ==
    IF s = <<>> THEN acc
    ELSE StatedFrom(AddDelta(acc, StatedTokenDelta(FirstToken(s))),
                    AfterFirstToken(s))

\* the sum of the stated deltas of the tokens of s, taken in their order
StatedTotal(s) == StatedFrom(ZeroDelta, s)

\* the tokens of s
RECURSIVE TokensOf(_)
TokensOf(s) ==
    IF s = <<>> THEN <<>>
    ELSE <<FirstToken(s)>> \o TokensOf(AfterFirstToken(s))

\* the texts that have the tokens of s in some order
Reorderings(s) ==
    {Flatten([i \in 1..Len(TokensOf(s)) |-> TokensOf(s)[p[i]]]) :
        p \in {q \in [1..Len(TokensOf(s)) -> 1..Len(TokensOf(s))] :
                  \A i, j \in 1..Len(TokensOf(s)) : q[i] = q[j] => i = j}}

\* "-0:30" is -1800 seconds
MinusHalfHour ==
    pg_raw = <<"-", "0", ":", "3", "0", " ">> =>
        pg_out.delta = [years |-> 0, months |-> 0, days |-> Zero,
                        seconds |-> Decimal(-1800, 0)]

\* C24, as stated: in parse_pg_interval each token changes exactly one field
\* of the delta and leaves the others unchanged: year -> years,
\* month -> months, week -> days (x7), day -> days, hour/minute/second ->
\* seconds (x3600/x60/x1), and a signed H:MM[:SS] clock literal -> seconds
\* only, scaled by its sign (so "-0:30" is -1800 seconds); repeated units
\* add up and the result does not depend on the token order.
C24_TokensAddUp ==
    (pg_pc = "parsed" /\ pg_raw # <<>> /\ IsAcceptedText(pg_raw)) =>
        /\ pg_out = Success(StatedTotal(pg_raw))
        /\ \A r \in Reorderings(pg_raw) : parse_pg_interval(r) = pg_out
        /\ MinusHalfHour

\* the days (the seconds) the tokens of s stand for, those of zero left out
RECURSIVE FieldValues(_, _)
FieldValues(s, field) ==
    IF s = <<>> THEN <<>>
    ELSE (IF StatedTokenDelta(FirstToken(s))[field] = Zero THEN <<>>
          ELSE <<StatedTokenDelta(FirstToken(s))[field]>>)
         \o FieldValues(AfterFirstToken(s), field)

\* the floating-point sum of the values does not depend on their order:
\* there are at most two of them, or each of them is a short fraction,
\* whose sums are not rounded
OrderFree(values) ==
    \/ Len(values) <= 2
    \/ \A i \in 1..Len(values) : IsShort(values[i])

\* C24, amended: in parse_pg_interval each token changes exactly one field
\* of the delta and leaves the others unchanged: year -> years,
\* month -> months, week -> days (x7), day -> days, hour/minute/second ->
\* seconds (x3600/x60/x1), and a signed H:MM[:SS] clock literal -> seconds
\* only, scaled by its sign (so "-0:30" is -1800 seconds); repeated units
\* add up as floating-point sums taken in token order.  The years and the
\* months do not depend on the token order; the days and the seconds do
\* not depend on it when at most two tokens feed the field or every value
\* fed to it is a double whose sums are not rounded.
C24_TokensAddUpInOrder ==
    (pg_pc = "parsed" /\ pg_raw # <<>> /\ IsAcceptedText(pg_raw)) =>
        /\ pg_out = Success(StatedTotal(pg_raw))
        /\ \A r \in Reorderings(pg_raw) :
              /\ parse_pg_interval(r).status = "ok"
              /\ parse_pg_interval(r).delta.years = pg_out.delta.years
              /\ parse_pg_interval(r).delta.months = pg_out.delta.months
              /\ OrderFree(FieldValues(pg_raw, "days")) =>
                    parse_pg_interval(r).delta.days = pg_out.delta.days
              /\ OrderFree(FieldValues(pg_raw, "seconds")) =>
                    parse_pg_interval(r).delta.seconds = pg_out.delta.seconds
        /\ MinusHalfHour

\* "0.1 s 0.2 s 0.3 s" has been parsed: the seconds are (0.1 + 0.2) + 0.3
\* as doubles, which is not what "0.3 s 0.2 s 0.1 s" gives
C24_Witness ==
    /\ pg_pc = "parsed"
    /\ pg_raw = <<"0", ".", "1", " ", "s", " ", "0", ".", "2", " ", "s", " ",
                  "0", ".", "3", " ", "s", " ">>
    /\ pg_out.status = "ok"
    /\ pg_out.delta.seconds =
          float_add(float_add(binary64(Decimal(1, 1)), binary64(Decimal(2, 1))),
                    binary64(Decimal(3, 1)))
    /\ pg_out.delta.seconds #
          parse_pg_interval(<<"0", ".", "3", " ", "s", " ", "0", ".", "2", " ",
                              "s", " ", "0", ".", "1", " ", "s", " ">>)
              .delta.seconds

(***************************************************************************)
(* The date/time parser (pyjdate.py).  A function that may raise returns   *)
(* a record whose status is "ok" or the type of the exception raised:      *)
(* "ClickException" (with the kind of message as error) or "ValueError".   *)
(***************************************************************************)
\* str.split(c, 1) of a text that contains c: the two parts
before_first(s, c) == SubSeq(s, 1, FirstIndex(s, c) - 1)
after_first(s, c) == SubSeq(s, FirstIndex(s, c) + 1, Len(s))

\* s.split(c)
RECURSIVE split_on(_, _)
split_on(s, c) ==
    IF Contains(s, c)
    THEN <<before_first(s, c)>> \o split_on(after_first(s, c), c)
    ELSE <<s>>

\* the length of the first word of a text that does not start with a blank
word_len(s) == IF Contains(s, " ") THEN FirstIndex(s, " ") - 1 ELSE Len(s)

\* s.split(): the runs of characters other than whitespace
RECURSIVE split_blank(_)
RECURSIVE split_word(_)
split_blank(s) ==
    IF lstrip(s, {" "}) = <<>> THEN <<>> ELSE split_word(lstrip(s, {" "}))
split_word(t) ==
    <<SubSeq(t, 1, word_len(t))>>
    \o split_blank(SubSeq(t, word_len(t) + 1, Len(t)))

\* " ".join(tokens)
RECURSIVE join_blank(_)
join_blank(tokens) ==
    IF tokens = <<>> THEN <<>>
    ELSE IF Len(tokens) = 1 THEN tokens[1]
    ELSE tokens[1] \o <<" ">> \o join_blank(Tail(tokens))

\* s.rfind(c) + 1: the 1-based index of the last c in s, 0 when there is none
last_index(s, c) ==
    IF Contains(s, c)
    THEN CHOOSE i \in 1..Len(s) : s[i] = c /\ \A j \in (i + 1)..Len(s) : s[j] # c
    ELSE 0

\* s.replace(c, "")
without(s, c) == SelectSeq(s, LAMBDA x : x # c)

\* int(s) succeeds: blanks around, an optional sign, one or more digits
int_ok(s) == isdigit(drop_sign(strip(s)))

\* int(s) of such a text
int_value(s) ==
    IF Head(strip(s)) = "-" THEN -int_digits(drop_sign(strip(s)))
    ELSE int_digits(drop_sign(strip(s)))

ValueError == [status |-> "ValueError", error |-> "none"]
ClickException(error) == [status |-> "ClickException", error |-> error]

\* the index (1-based) of the first token that contains ":", 0 for None
RECURSIVE time_index_from(_, _)
time_index_from(tokens, i) ==
    IF i > Len(tokens) THEN 0
    ELSE IF Contains(tokens[i], ":") THEN i
    ELSE time_index_from(tokens, i + 1)

\* the time token, with the offset token that follows it glued to it
time_with_offset(tokens, i) ==
    IF i + 1 <= Len(tokens) /\ tokens[i + 1][1] \in {"+", "-"}
    THEN tokens[i] \o tokens[i + 1] ELSE tokens[i]

\* the date and time parts of split_datetime_parts, before the timezone is
\* split off the time part
split_date_time(raw) ==
    IF Contains(raw, "T")
    THEN [date |-> before_first(raw, "T"), time |-> after_first(raw, "T")]
    ELSE IF Contains(raw, " ") /\ time_index_from(split_blank(raw), 1) > 0
    THEN [date |-> join_blank(SubSeq(split_blank(raw), 1,
                       time_index_from(split_blank(raw), 1) - 1)),
          time |-> time_with_offset(split_blank(raw),
                       time_index_from(split_blank(raw), 1))]
    ELSE [date |-> raw, time |-> <<>>]

\* the index of the sign at which the timezone starts: max(plus, minus) + 1
offset_index(time_part) ==
    IF last_index(time_part, "+") > last_index(time_part, "-")
    THEN last_index(time_part, "+") ELSE last_index(time_part, "-")

\* the "if time_part:" block of split_datetime_parts
split_time_zone(date_part, time_part) ==
    IF time_part = <<>>
    THEN [date |-> date_part, time |-> <<>>, tz |-> <<>>]
    ELSE IF time_part[Len(time_part)] \in {"Z", "z"}
    THEN [date |-> date_part,
          time |-> SubSeq(time_part, 1, Len(time_part) - 1), tz |-> <<"Z">>]
    ELSE IF offset_index(time_part) > 1
    THEN [date |-> date_part,
          time |-> SubSeq(time_part, 1, offset_index(time_part) - 1),
          tz |-> SubSeq(time_part, offset_index(time_part), Len(time_part))]
    ELSE [date |-> date_part, time |-> time_part, tz |-> <<>>]

split_datetime_parts(raw) ==
    split_time_zone(split_date_time(raw).date, split_date_time(raw).time)

\* calendar.month_abbr and calendar.month_name in lower case, as strptime's
\* %b and %B match them
MonthAbbreviations ==
    <<<<"j", "a", "n">>, <<"f", "e", "b">>, <<"m", "a", "r">>,
      <<"a", "p", "r">>, <<"m", "a", "y">>, <<"j", "u", "n">>,
      <<"j", "u", "l">>, <<"a", "u", "g">>, <<"s", "e", "p">>,
      <<"o", "c", "t">>, <<"n", "o", "v">>, <<"d", "e", "c">>>>
MonthNames ==
    <<<<"j", "a", "n", "u", "a", "r", "y">>,
      <<"f", "e", "b", "r", "u", "a", "r", "y">>,
      <<"m", "a", "r", "c", "h">>, <<"a", "p", "r", "i", "l">>,
      <<"m", "a", "y">>, <<"j", "u", "n", "e">>, <<"j", "u", "l", "y">>,
      <<"a", "u", "g", "u", "s", "t">>,
      <<"s", "e", "p", "t", "e", "m", "b", "e", "r">>,
      <<"o", "c", "t", "o", "b", "e", "r">>,
      <<"n", "o", "v", "e", "m", "b", "e", "r">>,
      <<"d", "e", "c", "e", "m", "b", "e", "r">>>>

\* the month a word names in the table (%b or %B), 0 when it names none
month_in(table, word) ==
    IF \E m \in 1..12 : table[m] = lower(word)
    THEN CHOOSE m \in 1..12 : table[m] = lower(word) ELSE 0

\* %d: one or two digits that make a day of 1..31
strptime_day(word) ==
    IF Len(word) \in 1..2 /\ isdigit(word) /\ int_digits(word) \in 1..31
    THEN int_digits(word) ELSE 0

\* %Y: four digits
strptime_year(word) ==
    IF Len(word) = 4 /\ isdigit(word) THEN int_digits(word) ELSE 0

\* datetime.strptime of the words month, day, year with the month read in a
\* table: the date, or NoDate for a ValueError
strptime_words(table, month, day, year) ==
    IF /\ month_in(table, month) > 0
       /\ strptime_year(year) > 0
       /\ strptime_day(day) > 0
       /\ strptime_day(day)
            <= gregorian_month_days(strptime_year(year))[month_in(table, month)]
    THEN <<strptime_year(year), month_in(table, month), strptime_day(day)>>
    ELSE NoDate

\* the loop over "%b %d %Y", "%B %d %Y", "%d %b %Y", "%d %B %Y": the date of
\* the first format that parses the three words, NoDate when none does
strptime_formats(w) ==
    IF strptime_words(MonthAbbreviations, w[1], w[2], w[3]) # NoDate
    THEN strptime_words(MonthAbbreviations, w[1], w[2], w[3])
    ELSE IF strptime_words(MonthNames, w[1], w[2], w[3]) # NoDate
    THEN strptime_words(MonthNames, w[1], w[2], w[3])
    ELSE IF strptime_words(MonthAbbreviations, w[2], w[1], w[3]) # NoDate
    THEN strptime_words(MonthAbbreviations, w[2], w[1], w[3])
    ELSE strptime_words(MonthNames, w[2], w[1], w[3])

\* the branch of parse_date_parts for a text without "-" and "/"
parse_date_words(calendar, raw) ==
    IF /\ calendar = "gregorian"
       /\ raw = strip(raw)
       /\ Len(split_blank(raw)) = 3
       /\ strptime_formats(split_blank(raw)) # NoDate
    THEN [status |-> "ok", error |-> "none",
          date |-> strptime_formats(split_blank(raw))]
    ELSE ClickException("Invalid date")

\* DateParts(int(year), int(month), int(day))
date_of_fields(year, month, day) ==
    IF int_ok(year) /\ int_ok(month) /\ int_ok(day)
    THEN [status |-> "ok", error |-> "none",
          date |-> <<int_value(year), int_value(month), int_value(day)>>]
    ELSE ValueError

\* A slip: a year in the last field is found, but the fields are read in
\* the order year, month, day all the same.
parse_date_fields_unswapped(parts) ==
    IF Len(parts) # 3 THEN ClickException("Invalid date")
    ELSE IF Len(parts[1]) = 4 THEN date_of_fields(parts[1], parts[2], parts[3])
    ELSE IF Len(parts[3]) = 4 THEN date_of_fields(parts[1], parts[2], parts[3])
    ELSE ClickException("Invalid date")

\* the branch of parse_date_parts for the fields of raw.split(sep)
parse_date_fields(parts) ==
    IF Len(parts) # 3 THEN ClickException("Invalid date")
    ELSE IF Len(parts[1]) = 4 THEN date_of_fields(parts[1], parts[2], parts[3])
    ELSE IF Len(parts[3]) = 4 THEN date_of_fields(parts[3], parts[2], parts[1])
    ELSE ClickException("Invalid date")

\* parse_date_parts once raw = date_part.strip().replace(",", "")
parse_date_raw(calendar, raw) ==
    IF isdigit(raw) /\ Len(raw) = 8
    THEN date_of_fields(SubSeq(raw, 1, 4), SubSeq(raw, 5, 6), SubSeq(raw, 7, 8))
    ELSE IF Contains(raw, "-") THEN parse_date_fields(split_on(raw, "-"))
    ELSE IF Contains(raw, "/") THEN parse_date_fields(split_on(raw, "/"))
    ELSE parse_date_words(calendar, raw)

parse_date_parts(calendar, date_part) ==
    parse_date_raw(calendar, without(strip(date_part), ","))

\* micro_str.ljust(6, "0")[:6]
six_digits(micro_str) ==
    SubSeq(micro_str \o <<"0", "0", "0", "0", "0", "0">>, 1, 6)

NoTime == [hour |-> 0, minute |-> 0, second |-> 0, microsecond |-> 0]

\* the hour, minute and second fields of parse_time_parts, each read by int
time_of_fields(hour, minute, second, microsecond) ==
    IF int_ok(hour) /\ int_ok(minute) /\ int_ok(second)
    THEN [status |-> "ok", error |-> "none",
          time |-> [hour |-> int_value(hour), minute |-> int_value(minute),
                    second |-> int_value(second),
                    microsecond |-> microsecond],
          provided |-> TRUE]
    ELSE ValueError

\* the branch on len(parts) of parse_time_parts
parse_time_fields(parts, microsecond) ==
    IF Len(parts) = 1
    THEN time_of_fields(parts[1], <<"0">>, <<"0">>, microsecond)
    ELSE IF Len(parts) = 2
    THEN time_of_fields(parts[1], parts[2], <<"0">>, microsecond)
    ELSE IF Len(parts) = 3
    THEN time_of_fields(parts[1], parts[2], parts[3], microsecond)
    ELSE ClickException("Invalid time")

\* parse_time_parts of a time part with a "."
parse_time_fraction(time_part, micro_str) ==
    IF int_ok(six_digits(micro_str))
    THEN parse_time_fields(split_on(time_part, ":"),
                           int_value(six_digits(micro_str)))
    ELSE ValueError

parse_time_parts(time_part) ==
    IF time_part = <<>>
    THEN [status |-> "ok", error |-> "none", time |-> NoTime,
          provided |-> FALSE]
    ELSE IF Contains(time_part, ".")
    THEN parse_time_fraction(before_first(time_part, "."),
                             after_first(time_part, "."))
    ELSE parse_time_fields(split_on(time_part, ":"), 0)

\* timezone(timedelta(hours=int(hours), minutes=int(minutes)) * sign): the
\* offset in minutes; the timezone constructor wants less than 24 hours
timezone_of(sign, hours, minutes) ==
    IF ~(int_ok(hours) /\ int_ok(minutes)) THEN ValueError
    ELSE IF sign * (int_value(hours) * 60 + int_value(minutes))
              \notin (-1439)..1439
    THEN ValueError
    ELSE [status |-> "ok", error |-> "none",
          off |-> sign * (int_value(hours) * 60 + int_value(minutes))]

\* A slip: the minutes of the four-digit form are left at "00".
timezone_of_payload_hours_only(sign, payload) ==
    IF Contains(payload, ":")
    THEN timezone_of(sign, before_first(payload, ":"),
                     after_first(payload, ":"))
    ELSE IF Len(payload) = 2
    THEN timezone_of(sign, payload, <<"0", "0">>)
    ELSE IF Len(payload) = 4
    THEN timezone_of(sign, SubSeq(payload, 1, 2), <<"0", "0">>)
    ELSE ClickException("Invalid timezone offset")

\* the branch on the payload of parse_timezone_offset
timezone_of_payload(sign, payload) ==
    IF Contains(payload, ":")
    THEN timezone_of(sign, before_first(payload, ":"),
                     after_first(payload, ":"))
    ELSE IF Len(payload) = 2
    THEN timezone_of(sign, payload, <<"0", "0">>)
    ELSE IF Len(payload) = 4
    THEN timezone_of(sign, SubSeq(payload, 1, 2), SubSeq(payload, 3, 4))
    ELSE ClickException("Invalid timezone offset")

\* parse_timezone_offset once raw = offset.strip()
timezone_of_raw(raw) ==
    IF raw \in {<<"Z">>, <<"z">>}
    THEN [status |-> "ok", error |-> "none", off |-> 0]
    ELSE IF raw = <<>> THEN [status |-> "IndexError", error |-> "none"]
    ELSE timezone_of_payload(IF raw[1] = "+" THEN 1 ELSE -1, Tail(raw))

parse_timezone_offset(offset) == timezone_of_raw(strip(offset))

\* parse_timezone_offset(tz_part) if tz_part else local_timezone()
timezone_or_local(tz_part) ==
    IF tz_part = <<>>
    THEN [status |-> "ok", error |-> "none", off |-> local_off]
    ELSE parse_timezone_offset(tz_part)

\* parse_full_date once the date part is parsed: the time, then the timezone
full_date_of(date_parts, time_parts, tzinfo) ==
    IF time_parts.status # "ok" THEN time_parts
    ELSE IF tzinfo.status # "ok" THEN tzinfo
    ELSE [status |-> "ok", error |-> "none", date |-> date_parts.date,
          time |-> time_parts.time, off |-> tzinfo.off,
          provided |-> time_parts.provided]

\* parse_full_date on the parts of the text: the first stage that raises
\* ends it
parse_full_parts(calendar, parts) ==
    IF parse_date_parts(calendar, parts.date).status # "ok"
    THEN parse_date_parts(calendar, parts.date)
    ELSE full_date_of(parse_date_parts(calendar, parts.date),
                      parse_time_parts(parts.time),
                      timezone_or_local(parts.tz))

parse_full_date(calendar, value) ==
    parse_full_parts(calendar, split_datetime_parts(strip(value)))

\* the message of the ClickException validate_date raises, "none" when it
\* returns
validate_date_error(calendar, date) ==
    IF date[2] < 1 \/ date[2] > 12 THEN "Month must be between 1 and 12"
    ELSE IF ~validate_date(calendar, date[1], date[2], date[3])
    THEN "Day out of range"
    ELSE "none"

\* the message of the ClickException validate_time raises, "none" when it
\* returns
validate_time_error(t) ==
    IF t.hour < 0 \/ t.hour > 23 THEN "Hour must be between 0 and 23"
    ELSE IF t.minute < 0 \/ t.minute > 59
    THEN "Minute must be between 0 and 59"
    ELSE IF t.second < 0 \/ t.second > 59
    THEN "Second must be between 0 and 59"
    ELSE IF t.microsecond < 0 \/ t.microsecond > 999999
    THEN "Microsecond must be between 0 and 999999"
    ELSE "none"

\* TimeParts.has_time()
has_time(t) ==
    t.hour # 0 \/ t.minute # 0 \/ t.second # 0 \/ t.microsecond # 0

\* datetime(year, month, day, hour, minute, second, microsecond, tzinfo) of a
\* valid Gregorian date and a valid time: years are 1..9999
datetime_of(g, t, off) ==
    IF g[1] < 1 \/ g[1] > 9999 THEN ValueError
    ELSE [status |-> "ok", error |-> "none",
          instant |-> [ord |-> ToOrdinal(g[1], g[2], g[3]),
                       sec |-> t.hour * 3600 + t.minute * 60 + t.second,
                       micro |-> t.microsecond, off |-> off]]

\* A slip: the Jalali triple is handed to datetime() as it is.
build_datetime_without_conversion(calendar, date, t, off) ==
    datetime_of(date, t, off)

build_datetime(calendar, date, t, off) ==
    IF calendar = "jalali"
    THEN datetime_of(jalali_to_gregorian(date[1], date[2], date[3]), t, off)
    ELSE datetime_of(date, t, off)

\* toordinal() of 1970-01-01 and of 9999-12-31
EpochOrdinal == ToOrdinal(1970, 1, 1)
MaxOrdinal == ToOrdinal(9999, 12, 31)

\* n / d rounded to the nearest integer, halves to the even one (d > 0)
round_half_even(n, d) ==
    IF 2 * (n % d) > d \/ (2 * (n % d) = d /\ (n \div d) % 2 = 1)
    THEN (n \div d) + 1 ELSE n \div d

\* the whole seconds (floor) and the microseconds of the decimal ts; the
\* microseconds are rounded when ts has more than six decimals
timestamp_seconds(ts) == ts.n \div Pow10(ts.k)
timestamp_micro(ts) ==
    IF ts.k <= 6 THEN (ts.n % Pow10(ts.k)) * Pow10(6 - ts.k)
    ELSE round_half_even(ts.n % Pow10(ts.k), Pow10(ts.k - 6))

\* the UTC datetime of s seconds and us microseconds (0..1000000) since
\* the epoch
utc_from_seconds(s, us) ==
    [ord |-> EpochOrdinal + ((s + (us \div 1000000)) \div 86400),
     sec |-> (s + (us \div 1000000)) % 86400, micro |-> us % 1000000,
     off |-> 0]

\* datetime.fromtimestamp(ts, tz=local_timezone()) for the decimal ts
fromtimestamp(ts) ==
    astimezone(utc_from_seconds(timestamp_seconds(ts), timestamp_micro(ts)),
               local_off)

\* parse_epoch of a value that is_epoch_candidate accepts (float reads it)
parse_epoch(value) ==
    IF fromtimestamp(float(strip(value))).ord \in 1..MaxOrdinal
    THEN [status |-> "ok", error |-> "none",
          instant |-> fromtimestamp(float(strip(value))), show_time |-> TRUE]
    ELSE ValueError

\* parse_interval_endpoint after parse_full_date returned parsed
endpoint_of_parsed(calendar, parsed) ==
    IF validate_date_error(calendar, parsed.date) # "none"
    THEN ClickException(validate_date_error(calendar, parsed.date))
    ELSE IF validate_time_error(parsed.time) # "none"
    THEN ClickException(validate_time_error(parsed.time))
    ELSE IF build_datetime(calendar, parsed.date, parsed.time,
                           parsed.off).status # "ok"
    THEN build_datetime(calendar, parsed.date, parsed.time, parsed.off)
    ELSE [status |-> "ok", error |-> "none",
          instant |-> build_datetime(calendar, parsed.date, parsed.time,
                                     parsed.off).instant,
          show_time |-> parsed.provided \/ has_time(parsed.time)]

\* parse_interval_endpoint on the result of parse_full_date
endpoint_of_full_date(calendar, parsed) ==
    IF parsed.status # "ok" THEN parsed
    ELSE endpoint_of_parsed(calendar, parsed)

parse_interval_endpoint(calendar, value) ==
    IF is_epoch_candidate(value) THEN parse_epoch(value)
    ELSE endpoint_of_full_date(calendar, parse_full_date(calendar, value))

(***************************************************************************)
(* Formatting (pyjdate.py)                                                 *)
(***************************************************************************)
DigitChars == <<"0", "1", "2", "3", "4", "5", "6", "7", "8", "9">>

\* str(n) for n >= 0
RECURSIVE str_digits(_)
str_digits(n) ==
    IF n < 10 THEN <<DigitChars[n + 1]>>
    ELSE str_digits(n \div 10) \o <<DigitChars[(n % 10) + 1]>>

\* s.rjust(width, "0")
RECURSIVE zfill(_, _)
zfill(s, width) == IF Len(s) >= width THEN s ELSE zfill(<<"0">> \o s, width)

\* f"{n:0{width}d}": the sign counts in the width
format_d(n, width) ==
    IF n < 0 THEN <<"-">> \o zfill(str_digits(-n), width - 1)
    ELSE zfill(str_digits(n), width)

\* f"{year:04d}-{month:02d}-{day:02d}"
format_base(date) ==
    format_d(date[1], 4) \o <<"-">> \o format_d(date[2], 2) \o <<"-">>
    \o format_d(date[3], 2)

\* GREGORIAN_MONTHS and JALALI_MONTHS, each name one piece of text
GREGORIAN_MONTHS ==
    <<"January", "February", "March", "April", "May", "June", "July",
      "August", "September", "October", "November", "December">>

JALALI_MONTHS ==
    <<"Farvardin", "Ordibehesht", "Khordad", "Tir", "Mordad", "Shahrivar",
      "Mehr", "Aban", "Azar", "Dey", "Bahman", "Esfand">>

month_name(calendar, month) ==
    IF calendar = "gregorian" THEN GREGORIAN_MONTHS[month]
    ELSE JALALI_MONTHS[month]

\* A slip: the microsecond is written without its leading zeros.
format_time_unpadded(t) ==
    format_d(t.hour, 2) \o <<":">> \o format_d(t.minute, 2) \o <<":">>
    \o format_d(t.second, 2)
    \o (IF t.microsecond # 0 THEN <<".">> \o str_digits(t.microsecond)
        ELSE <<>>)

\* f"{hour:02d}:{minute:02d}:{second:02d}", with ".{microsecond:06d}" when
\* the microsecond is not zero
format_time(t) ==
    format_d(t.hour, 2) \o <<":">> \o format_d(t.minute, 2) \o <<":">>
    \o format_d(t.second, 2)
    \o (IF t.microsecond # 0 THEN <<".">> \o format_d(t.microsecond, 6)
        ELSE <<>>)

format_datetime(calendar, date_parts, time_parts, show_time) ==
    format_base(date_parts)
    \o (IF show_time \/ has_time(time_parts)
        THEN <<" ">> \o format_time(time_parts) ELSE <<>>)
    \o <<" ", "(", month_name(calendar, date_parts[2]), ")">>

\* s.rstrip("0")
RECURSIVE rstrip_zeros(_)
rstrip_zeros(s) ==
    IF s # <<>> /\ s[Len(s)] = "0"
    THEN rstrip_zeros(SubSeq(s, 1, Len(s) - 1)) ELSE s

\* str(days * 86400 + seconds) for days >= 0 and 0 <= seconds <= 86400,
\* computed in two halves of six decimal digits
str_of_halves(high, low) ==
    IF high = 0 THEN str_digits(low)
    ELSE str_digits(high) \o zfill(str_digits(low), 6)

str_of_thousands(a, b) ==
    str_of_halves((a \div 1000) + (((a % 1000) * 1000 + b) \div 1000000),
                  ((a % 1000) * 1000 + b) % 1000000)

str_seconds(days, seconds) ==
    str_of_thousands((days \div 1000) * 86400,
                     (days % 1000) * 86400 + seconds)

\* 2^33, ..., 2^37 seconds as <<days, seconds of the day>>: from each of
\* them on, a double has one binary digit less for the fraction
BinadeStarts ==
    <<<<99420, 46592>>, <<198841, 6784>>, <<397682, 13568>>,
      <<795364, 27136>>, <<1590728, 54272>>>>

\* the binary digits a double of days * 86400 + seconds seconds keeps
\* beyond a sixty-fourth of a second (14 stands for 14 or more)
spare_bits(days, seconds) ==
    14 - Cardinality({i \in 1..Len(BinadeStarts) :
                         \/ days > BinadeStarts[i][1]
                         \/ /\ days = BinadeStarts[i][1]
                            /\ seconds >= BinadeStarts[i][2]})

\* base + n / d rounded to the nearest integer, halves to the even one
round_half_even_onto(base, n, d) ==
    IF 2 * (n % d) > d \/ (2 * (n % d) = d /\ (base + (n \div d)) % 2 = 1)
    THEN base + (n \div d) + 1
    ELSE base + (n \div d)

\* the microseconds f"{timestamp:.6f}" prints for a timestamp of us
\* microseconds past a whole second: below 2^33 seconds the nearest double
\* still gives us; above, us / 10^6 is first rounded to a multiple of
\* 2^-(bits + 6), then to six decimals (1000000 carries into the seconds)
float_micro(us, bits) ==
    IF bits >= 14 THEN us
    ELSE round_half_even_onto(
             (us \div 15625) * 15625,
             round_half_even((us % 15625) * (2 ^ bits), 15625) * 15625,
             2 ^ bits)

\* f"{timestamp:.6f}".rstrip("0").rstrip(".") for a timestamp of
\* days * 86400 + seconds seconds and printed microseconds
format_f6(days, seconds, printed) ==
    IF printed = 1000000 THEN str_seconds(days, seconds + 1)
    ELSE IF printed = 0 THEN str_seconds(days, seconds)
    ELSE str_seconds(days, seconds) \o <<".">>
         \o rstrip_zeros(format_d(printed, 6))

\* the digits of a timestamp of days * 86400 + seconds seconds and micro
\* microseconds (all three non-negative)
format_magnitude(days, seconds, micro) ==
    IF micro = 0 THEN str_seconds(days, seconds)
    ELSE format_f6(days, seconds,
                   float_micro(micro, spare_bits(days, seconds)))

\* format_unix_timestamp of the UTC datetime u, days after the epoch:
\* dt.timestamp() is (u - epoch).total_seconds()
format_unix_utc(days, u) ==
    IF days >= 0 THEN format_magnitude(days, u.sec, u.micro)
    ELSE <<"-">>
         \o format_magnitude(
                -days - 1,
                86400 - u.sec - (IF u.micro # 0 THEN 1 ELSE 0),
                IF u.micro # 0 THEN 1000000 - u.micro ELSE 0)

format_unix_timestamp(dt) ==
    format_unix_utc(astimezone(dt, 0).ord - EpochOrdinal, astimezone(dt, 0))

\* <<g, j>>
convert_from(calendar, date) ==
    IF calendar = "gregorian"
    THEN <<date, gregorian_to_jalali(date[1], date[2], date[3])>>
    ELSE <<jalali_to_gregorian(date[1], date[2], date[3]), date>>

\* _resolve_conversion_inputs for --full-date, on the result of
\* parse_full_date
_resolve_conversion_inputs(cal, parsed) ==
    IF parsed.status # "ok" THEN parsed
    ELSE IF validate_date_error(cal, parsed.date) # "none"
    THEN ClickException(validate_date_error(cal, parsed.date))
    ELSE IF validate_time_error(parsed.time) # "none"
    THEN ClickException(validate_time_error(parsed.time))
    ELSE parsed

\* the two calendar lines convert echoes
convert_dates(pair, time_parts, show_time) ==
    <<<<"Gregorian: ">>
      \o format_datetime("gregorian", pair[1], time_parts, show_time),
      <<"Jalali:    ">>
      \o format_datetime("jalali", pair[2], time_parts, show_time)>>

\* convert once its inputs are resolved: the lines echoed, and the
\* exception if one ends the command
convert_resolved(cal, r, ts) ==
    IF ts.status # "ok"
    THEN [status |-> ts.status, error |-> ts.error,
          lines |-> convert_dates(convert_from(cal, r.date), r.time,
                                  r.provided \/ has_time(r.time))]
    ELSE [status |-> "ok", error |-> "none",
          lines |-> convert_dates(convert_from(cal, r.date), r.time,
                                  r.provided \/ has_time(r.time))
                    \o <<<<"Unix:      ">>
                         \o format_unix_timestamp(ts.instant)>>]

convert_inputs(cal, r) ==
    IF r.status # "ok"
    THEN [status |-> r.status, error |-> r.error, lines |-> <<>>]
    ELSE convert_resolved(cal, r, build_datetime(cal, r.date, r.time, r.off))

\* convert --calendar cal --full-date full_date
convert(cal, full_date) ==
    convert_inputs(cal, _resolve_conversion_inputs(
                            cal, parse_full_date(cal, full_date)))

(***************************************************************************)
(* Specification SpecParse: the parser on a bounded set of texts, each     *)
(* made of a date portion, a separator, a time portion and a timezone      *)
(* portion, well-formed or not                                             *)
(***************************************************************************)
\* date portions: year first, year last, "/", eight digits, Jalali dates,
\* dates that exist in one calendar only, malformed ones, month names, and
\* ten digits (an epoch)
PrDates ==
    {<<"2", "0", "2", "6", "-", "0", "1", "-", "0", "4">>,
     <<"0", "4", "-", "0", "1", "-", "2", "0", "2", "6">>,
     <<"2", "0", "2", "6", "/", "1", "/", "4">>,
     <<"2", "0", "2", "6", "0", "1", "0", "4">>,
     <<"1", "4", "0", "4", "-", "1", "0", "-", "1", "4">>,
     <<"1", "4", "0", "3", "-", "1", "2", "-", "3", "0">>,
     <<"2", "0", "2", "4", "-", "0", "2", "-", "2", "9">>,
     <<"2", "0", "2", "6", "-", "0", "2", "-", "3", "0">>,
     <<"1", "4", "0", "4", "-", "1", "2", "-", "3", "0">>,
     <<"2", "0", "2", "6", "-", "1", "3", "-", "0", "4">>,
     <<"2", "0", "2", "6", "-", "0", "a", "-", "0", "4">>,
     <<"2", "0", "2", "6", "-", "0", "1">>,
     <<"2", "6", "-", "0", "1", "-", "0", "4">>,
     <<"2", "0", "2", "6", "/", "0", "1", "-", "0", "4">>,
     <<"0", "0", "0", "0", "-", "0", "1", "-", "0", "1">>,
     <<"J", "a", "n", " ", "0", "4", ",", " ", "2", "0", "2", "6">>,
     <<"4", " ", "j", "a", "n", "u", "a", "r", "y", " ", "2", "0", "2", "6">>,
     <<"1", "7", "0", "0", "0", "0", "0", "0", "0", "0">>}

PrTimes ==
    {<<>>,
     <<"1", "0", ":", "4", "3", ":", "4", "5", ".", "0", "2", "4", "9", "9", "5">>,
     <<"0", "0", ":", "0", "0">>,
     <<"0", "0", ":", "0", "0", ":", "0", "0">>,
     <<"1", "0", ":", "4", "3">>,
     <<"1", "0">>,
     <<"1", "x", ":", "0", "0">>,
     <<"2", "5", ":", "0", "0">>,
     <<"1", ":", "2", ":", "3", ":", "4">>,
     <<"1", "0", ":", "4", "3", ":", "4", "5", ".", "5", "x">>}

PrZones ==
    {<<>>, <<"Z">>,
     <<"+", "0", "3", ":", "3", "0">>, <<"+", "0", "3", "3", "0">>,
     <<"+", "0", "3">>, <<"+", "0", "3", ":", "0", "0">>,
     <<"+", "0", "0", ":", "0", "0">>,
     <<"-", "0", "3", ":", "3", "0">>, <<"-", "0", "3", "3", "0">>,
     <<"-", "0", "3">>,
     <<"+", "a", "b">>, <<"+", "0", "3", ":", "3", "x">>,
     <<"+", "2", "4", ":", "0", "0">>, <<"+", "3">>,
     <<" ", "+", "0", "3", "3", "0">>}

\* the text parsed
PrRaw == pr_date \o pr_sep \o pr_time \o pr_tz

InitParse ==
    /\ local_off \in {0, 210}
    /\ pr_pc = "input"
    /\ pr_cal \in {"gregorian", "jalali"}
    /\ pr_date \in PrDates
    /\ pr_sep \in {<<>>, <<" ">>, <<"T">>}
    /\ pr_time \in PrTimes
    /\ pr_tz \in PrZones
    /\ pr_sep = <<>> => pr_time = <<>> /\ pr_tz = <<>>
    /\ pr_now = NoInstant
    /\ pr_parts = NoOutcome /\ pr_zone = NoOutcome /\ pr_full = NoOutcome
    /\ pr_out = NoOutcome /\ pr_pick = NoOutcome /\ pr_lines = <<>>
    /\ CalOff /\ DfOff /\ IvOff /\ EpOff /\ PgOff /\ VdOff /\ RestOff

\* parse_date_parts(pr_cal, pr_date)
ParseDateParts ==
    /\ pr_pc = "input"
    /\ pr_parts' = parse_date_parts(pr_cal, pr_date)
    /\ pr_pc' = "date"
    /\ UNCHANGED <<calVars, local_off, dfVars, ivVars, textVars, vdVars,
                   restVars, prIn,
                   pr_zone, pr_full, pr_out, pr_pick, pr_lines>>

\* parse_timezone_offset(pr_tz), which is called for a timezone portion
\* that is not empty
ParseTimezoneOffset ==
    /\ pr_pc = "date"
    /\ pr_zone' = IF pr_tz = <<>> THEN NoOutcome
                  ELSE parse_timezone_offset(pr_tz)
    /\ pr_pc' = "zone"
    /\ UNCHANGED <<calVars, local_off, dfVars, ivVars, textVars, vdVars,
                   restVars, prIn,
                   pr_parts, pr_full, pr_out, pr_pick, pr_lines>>

\* parse_full_date(pr_cal, PrRaw)
ParseFullDate ==
    /\ pr_pc = "zone"
    /\ pr_full' = parse_full_date(pr_cal, PrRaw)
    /\ pr_pc' = "full"
    /\ UNCHANGED <<calVars, local_off, dfVars, ivVars, textVars, vdVars,
                   restVars, prIn,
                   pr_parts, pr_zone, pr_out, pr_pick, pr_lines>>

\* parse_interval_endpoint(pr_cal, PrRaw)
ParseEndpoint ==
    /\ pr_pc = "full"
    /\ pr_out' = parse_interval_endpoint(pr_cal, PrRaw)
    /\ pr_pc' = "parsed"
    /\ UNCHANGED <<calVars, local_off, dfVars, ivVars, textVars, vdVars,
                   restVars, prIn,
                   pr_parts, pr_zone, pr_full, pr_pick, pr_lines>>

\* convert --calendar pr_cal --full-date PrRaw: pr_lines are the lines it
\* echoes, pr_out the exception that ends it, if one does
Convert ==
    /\ pr_pc = "input"
    /\ pr_lines' = convert(pr_cal, PrRaw).lines
    /\ pr_out' = [status |-> convert(pr_cal, PrRaw).status,
                  error |-> convert(pr_cal, PrRaw).error]
    /\ pr_pc' = "converted"
    /\ UNCHANGED <<prIn, pr_parts, pr_zone, pr_full, pr_pick>>
    /\ UNCHANGED <<local_off, calVars, dfVars, ivVars, textVars, vdVars,
                   restVars>>

NextParse ==
    \/ ParseDateParts
    \/ ParseTimezoneOffset
    \/ ParseFullDate
    \/ ParseEndpoint
    \/ Convert

SpecParse == InitParse /\ [][NextParse]_vars

\* the messages of the error taxonomy: invalid format, date, time and
\* timezone offset
TaxonomyErrors ==
    {"Invalid date", "Invalid time", "Invalid timezone offset",
     "Month must be between 1 and 12", "Day out of range",
     "Hour must be between 0 and 23", "Minute must be between 0 and 59",
     "Second must be between 0 and 59",
     "Microsecond must be between 0 and 999999"}

\* C11: whenever parse_interval_endpoint does not return an instant it
\* raises a click.ClickException of the error taxonomy; no other exception
\* type escapes, also for a non-numeric field, a malformed offset or an
\* offset of 24 hours or more.
C11_OnlyClickExceptions ==
    pr_pc = "parsed" =>
        \/ pr_out.status = "ok"
        \/ pr_out.status = "ClickException" /\ pr_out.error \in TaxonomyErrors


(***************************************************************************)
(* Specification SpecValidate: leap test, validate_date and days_in_month  *)
(* of one calendar date                                                    *)
(***************************************************************************)
\* years on each side of the ranges below
ValidateSpan == 2

\* the Jalali years C14 lists, and the years around them
ValidateJalaliYears == (1375 - ValidateSpan)..(1408 + ValidateSpan)

\* a century that is no leap year, one that is, and the years around 2024
ValidateGregorianYears ==
    {1900, 2000} \cup ((2024 - ValidateSpan)..(2024 + ValidateSpan))

ValidateYears(calendar) ==
    IF calendar = "gregorian" THEN ValidateGregorianYears
    ELSE ValidateJalaliYears

\* months and days on both sides of every limit
ValidateMonths == 0..13
ValidateDays == 0..32

InitValidate ==
    /\ local_off = 0
    /\ vd_pc = "input"
    /\ vd_cal \in {"gregorian", "jalali"}
    /\ vd_in \in ValidateYears(vd_cal) \X ValidateMonths \X ValidateDays
    /\ vd_ok = FALSE /\ vd_days = 0 /\ vd_leap = FALSE
    /\ CalOff /\ DfOff /\ IvOff /\ EpOff /\ PgOff /\ PrOff /\ RestOff

\* is_leap_gregorian(year) or is_leap_jalali(year)
IsLeap ==
    /\ vd_pc = "input"
    /\ vd_leap' = IF vd_cal = "gregorian" THEN is_leap_gregorian(vd_in[1])
                  ELSE is_leap_jalali(vd_in[1])
    /\ vd_pc' = "leap"
    /\ UNCHANGED <<vd_cal, vd_in, vd_ok, vd_days>>
    /\ UNCHANGED <<local_off, calVars, dfVars, ivVars, epVars, pgVars, prVars,
                   restVars>>

\* validate_date(vd_cal, year, month, day): vd_ok is FALSE when it raises
ValidateDate ==
    /\ vd_pc = "leap"
    /\ vd_ok' = validate_date(vd_cal, vd_in[1], vd_in[2], vd_in[3])
    /\ vd_pc' = "validated"
    /\ UNCHANGED <<vd_cal, vd_in, vd_days, vd_leap>>
    /\ UNCHANGED <<local_off, calVars, dfVars, ivVars, epVars, pgVars, prVars,
                   restVars>>

\* days_in_month(vd_cal, year, month); its callers pass a month of 1..12
DaysInMonth ==
    /\ vd_pc = "validated"
    /\ vd_in[2] \in 1..12
    /\ vd_days' = days_in_month(vd_cal, vd_in[1], vd_in[2])
    /\ vd_pc' = "days"
    /\ UNCHANGED <<vd_cal, vd_in, vd_ok, vd_leap>>
    /\ UNCHANGED <<local_off, calVars, dfVars, ivVars, epVars, pgVars, prVars,
                   restVars>>

NextValidate ==
    \/ IsLeap
    \/ ValidateDate
    \/ DaysInMonth

SpecValidate == InitValidate /\ [][NextValidate]_vars

\* the stated number of days of a month, from the leap answer of the year
StatedMonthLength(calendar, leap, month) ==
    IF calendar = "gregorian"
    THEN IF month = 2 THEN (IF leap THEN 29 ELSE 28)
         ELSE IF month \in {4, 6, 9, 11} THEN 30 ELSE 31
    ELSE IF month <= 6 THEN 31
         ELSE IF month <= 11 THEN 30
         ELSE (IF leap THEN 30 ELSE 29)

\* C12: validate_date raises exactly when the month is outside 1..12 or the
\* day is outside 1..days_in_month; the Gregorian month lengths are the
\* usual ones with a February of 29 days exactly in is_leap_gregorian
\* years, the Jalali ones are 31 for months 1-6, 30 for months 7-11, and
\* 29 for month 12, 30 exactly in is_leap_jalali years.
C12_ValidateDateMonthLengths ==
    /\ vd_pc \in {"validated", "days"} =>
           (vd_ok <=> /\ vd_in[2] \in 1..12
                      /\ vd_in[3] >= 1
                      /\ vd_in[3] <= StatedMonthLength(vd_cal, vd_leap,
                                                       vd_in[2]))
    /\ vd_pc = "days" =>
           vd_days = StatedMonthLength(vd_cal, vd_leap, vd_in[2])

\* 1403-12-30 of the Jalali calendar, a leap day, is accepted
C12_Witness ==
    /\ vd_pc = "days" /\ vd_cal = "jalali" /\ vd_in = <<1403, 12, 30>>
    /\ vd_ok /\ vd_days = 30

\* C14: for 1375 <= y <= 1408, is_leap_jalali(y) is true exactly for 1375,
\* 1379, 1383, 1387, 1391, 1395, 1399, 1403 and 1408.
C14_JalaliLeapYears ==
    (vd_pc # "input" /\ vd_cal = "jalali" /\ vd_in[1] \in 1375..1408) =>
        (vd_leap <=> vd_in[1] \in {1375, 1379, 1383, 1387, 1391, 1395,
                                   1399, 1403, 1408})

\* the five-year gap: 1408 is found leap, 1407 is not
C14_Witness ==
    /\ vd_pc = "leap" /\ vd_cal = "jalali" /\ vd_in[1] = 1408 /\ vd_leap


(***************************************************************************)
(* Calendar fallback of the time tracker (pytime.py)                       *)
(***************************************************************************)
\* parse_calendar(None): the default calendar, fallback detection allowed
parse_calendar_default == [calendar |-> "jalali", allow_fallback |-> TRUE]

\* the primary_dt argument when it is None
None == NoOutcome
is_none(dt) == dt.status = "none"

\* x - y as a timedelta <<days, seconds, microseconds>> (normalized as
\* Python does: 0 <= seconds < 86400, 0 <= microseconds < 1000000)
timedelta_of(days, seconds, microseconds) ==
    <<days + ((seconds + (microseconds \div 1000000)) \div 86400),
      (seconds + (microseconds \div 1000000)) % 86400,
      microseconds % 1000000>>

minus_utc(x, y) ==
    timedelta_of(x.ord - y.ord, x.sec - y.sec, x.micro - y.micro)

minus(x, y) == minus_utc(astimezone(x, 0), astimezone(y, 0))

\* abs((x - y).total_seconds()), kept exact as a timedelta
abs_delta(x, y) == IF Before(x, y) THEN minus(y, x) ELSE minus(x, y)

\* a < b on the seconds of two non-negative timedeltas
delta_less(a, b) ==
    \/ a[1] < b[1]
    \/ a[1] = b[1] /\ a[2] < b[2]
    \/ a[1] = b[1] /\ a[2] = b[2] /\ a[3] < b[3]

\* the ClickException of a value without hours and minutes
NeedsMinutes == ClickException("time must include hours and minutes")

\* parse_for(cal) of _parse_full_date_minutes, and the full_date branch of
\* _parse_datetime_fallback, on the result of parse_full_date
parse_for_parsed(cal, parsed) ==
    IF parsed.status # "ok" THEN parsed
    ELSE IF ~parsed.provided THEN NeedsMinutes
    ELSE endpoint_of_parsed(cal, parsed)

parse_for(cal, value) == parse_for_parsed(cal, parse_full_date(cal, value))

\* the last lines of _parse_datetime_fallback: both readings were parsed
fallback_closer(primary_dt, g_dt, now) ==
    IF delta_less(abs_delta(g_dt.instant, now),
                  abs_delta(primary_dt.instant, now))
    THEN g_dt
    ELSE primary_dt

\* _parse_datetime_fallback after the Gregorian attempt g_dt
fallback_after_gregorian(calendar, value, primary_dt, g_dt, now) ==
    IF g_dt.status = "ClickException"
    THEN (IF ~is_none(primary_dt) THEN primary_dt
          ELSE parse_interval_endpoint(calendar, value))
    ELSE IF g_dt.status # "ok" THEN g_dt
    ELSE IF is_none(primary_dt) THEN g_dt
    ELSE fallback_closer(primary_dt, g_dt, now)

\* _parse_datetime_fallback once primary_dt is a datetime or None
fallback_with_primary(calendar, value, primary_dt, full_date, now) ==
    IF ~is_none(primary_dt) /\ primary_dt.status # "ok" THEN primary_dt
    ELSE IF ~is_none(primary_dt)
            /\ ~Before(primary_dt.instant, add_timedelta(now, -365, 0))
    THEN primary_dt
    ELSE fallback_after_gregorian(
             calendar, value, primary_dt,
             IF full_date THEN parse_for("gregorian", value)
             ELSE parse_interval_endpoint("gregorian", value),
             now)

\* the primary reading when the caller passed None: a ClickException
\* leaves it None
primary_or_none(r) == IF r.status = "ClickException" THEN None ELSE r

_parse_datetime_fallback(calendar, value, primary_dt, full_date, now) ==
    fallback_with_primary(
        calendar, value,
        IF is_none(primary_dt)
        THEN primary_or_none(parse_interval_endpoint(calendar, value))
        ELSE primary_dt,
        full_date, now)

\* parse_datetime_value and _parse_full_date_minutes after the first
\* attempt dt in the given calendar
value_after_first(calendar, value, allow_fallback, dt, full_date, now) ==
    IF dt.status = "ClickException"
    THEN (IF allow_fallback /\ calendar = "jalali"
          THEN _parse_datetime_fallback(calendar, value, None, full_date, now)
          ELSE dt)
    ELSE IF dt.status # "ok" THEN dt
    ELSE IF allow_fallback /\ calendar = "jalali"
    THEN _parse_datetime_fallback(calendar, value, dt, full_date, now)
    ELSE dt

parse_datetime_value(calendar, value, allow_fallback, now) ==
    value_after_first(calendar, value, allow_fallback,
                      parse_interval_endpoint(calendar, value), FALSE, now)

_parse_full_date_minutes(calendar, value, allow_fallback, now) ==
    IF split_datetime_parts(strip(value)).time = <<>>
       \/ ~Contains(split_datetime_parts(strip(value)).time, ":")
    THEN NeedsMinutes
    ELSE value_after_first(calendar, value, allow_fallback,
                           parse_for(calendar, value), TRUE, now)

(***************************************************************************)
(* Specification SpecFallback: a value given without a calendar option,    *)
(* read by parse_datetime_value or by _parse_full_date_minutes             *)
(***************************************************************************)
\* date portions valid in both calendars, in one of them, or in none
FbDates ==
    {<<"2", "0", "2", "6", "-", "0", "1", "-", "0", "4">>,
     <<"1", "4", "0", "4", "-", "1", "0", "-", "1", "4">>,
     <<"1", "4", "0", "3", "-", "0", "1", "-", "0", "1">>,
     <<"1", "4", "0", "3", "-", "1", "2", "-", "3", "0">>,
     <<"1", "4", "0", "4", "-", "1", "2", "-", "3", "0">>,
     <<"2", "0", "2", "6", "-", "0", "2", "-", "3", "0">>,
     <<"2", "0", "2", "4", "-", "0", "2", "-", "2", "9">>,
     <<"0", "4", "-", "0", "1", "-", "2", "0", "2", "6">>,
     <<"2", "0", "2", "6", "0", "1", "0", "4">>,
     <<"2", "0", "2", "6", "-", "1", "3", "-", "0", "4">>,
     <<"2", "0", "2", "6", "-", "0", "a", "-", "0", "4">>,
     <<"J", "a", "n", " ", "0", "4", ",", " ", "2", "0", "2", "6">>,
     <<"1", "7", "0", "0", "0", "0", "0", "0", "0", "0">>}

FbTimes ==
    {<<>>, <<"1", "0", ":", "4", "3">>, <<"0", "0", ":", "0", "0">>,
     <<"1", "0">>, <<"2", "5", ":", "0", "0">>}

FbZones == {<<>>, <<"Z">>, <<"+", "0", "3", ":", "3", "0">>, <<"+", "a", "b">>}

\* the current time: noon of a day, years after 2026-11-03
FbYears == 1

FbNows ==
    {[ord |-> ToOrdinal(2026 + y, 11, 3), sec |-> 43200, micro |-> 0,
      off |-> local_off] : y \in 0..FbYears}

InitFallback ==
    /\ local_off \in {0, 210}
    /\ pr_pc = "input"
    /\ pr_cal = parse_calendar_default.calendar
    /\ pr_date \in FbDates
    /\ pr_sep \in {<<>>, <<" ">>, <<"T">>}
    /\ pr_time \in FbTimes
    /\ pr_tz \in FbZones
    /\ pr_sep = <<>> => pr_time = <<>> /\ pr_tz = <<>>
    /\ pr_now \in FbNows
    /\ pr_parts = NoOutcome /\ pr_zone = NoOutcome /\ pr_full = NoOutcome
    /\ pr_out = NoOutcome /\ pr_pick = NoOutcome /\ pr_lines = <<>>
    /\ CalOff /\ DfOff /\ IvOff /\ EpOff /\ PgOff /\ VdOff /\ RestOff

\* parse_datetime_value(calendar, value, allow_fallback) at time pr_now
ParseDatetimeValue ==
    /\ pr_pc = "input"
    /\ pr_pick' = parse_datetime_value(
                      pr_cal, PrRaw, parse_calendar_default.allow_fallback,
                      pr_now)
    /\ pr_pc' = "value"
    /\ UNCHANGED <<prIn, pr_parts, pr_zone, pr_full, pr_out, pr_lines>>
    /\ UNCHANGED <<local_off, calVars, dfVars, ivVars, textVars, vdVars,
                   restVars>>

\* _parse_full_date_minutes(calendar, value, label, allow_fallback) at time
\* pr_now
ParseFullDateMinutes ==
    /\ pr_pc = "input"
    /\ pr_pick' = _parse_full_date_minutes(
                      pr_cal, PrRaw, parse_calendar_default.allow_fallback,
                      pr_now)
    /\ pr_pc' = "minutes"
    /\ UNCHANGED <<prIn, pr_parts, pr_zone, pr_full, pr_out, pr_lines>>
    /\ UNCHANGED <<local_off, calVars, dfVars, ivVars, textVars, vdVars,
                   restVars>>

NextFallback ==
    \/ ParseDatetimeValue
    \/ ParseFullDateMinutes

SpecFallback == InitFallback /\ [][NextFallback]_vars

\* the reading nearer to now, the Jalali one on a tie
CloserReading(jalali, gregorian, now) ==
    IF delta_less(abs_delta(gregorian, now), abs_delta(jalali, now))
    THEN gregorian
    ELSE jalali

\* C15: with no calendar option (Jalali by default, fallback allowed), a
\* value that is a valid date in the Jalali and in the Gregorian reading is
\* returned by parse_datetime_value and by _parse_full_date_minutes in the
\* reading that lies closer to the current time, the Jalali one on a tie.
C15_CloserReadingReturned ==
    (/\ pr_pc \in {"value", "minutes"}
     /\ pr_pick.status = "ok"
     /\ parse_interval_endpoint("jalali", PrRaw).status = "ok"
     /\ parse_interval_endpoint("gregorian", PrRaw).status = "ok")
        => pr_pick.instant =
               CloserReading(
                   parse_interval_endpoint("jalali", PrRaw).instant,
                   parse_interval_endpoint("gregorian", PrRaw).instant,
                   pr_now)


\* the text is a date, a time of day and an offset as the parser splits
\* them, and the date portion reads as a year, a month and a day
DateTimeOffsetText ==
    /\ pr_parts.status = "ok"
    /\ split_datetime_parts(strip(PrRaw)) =
           [date |-> pr_date, time |-> pr_time, tz |-> pr_tz]

\* C16: for every valid Jalali date J, time of day T and offset Z, parsing
\* J with T and Z in calendar jalali gives the same instant (or the same
\* error of T or Z) as parsing jalali_to_gregorian(J) with the same T and
\* Z in calendar gregorian; a date that is not valid in the Jalali
\* calendar is refused before any conversion, even if its digits are a
\* valid Gregorian date.
C16_JalaliAsConvertedGregorian ==
    (pr_pc = "parsed" /\ pr_cal = "jalali" /\ DateTimeOffsetText) =>
        IF validate_date("jalali", pr_parts.date[1], pr_parts.date[2],
                         pr_parts.date[3])
        THEN pr_out = parse_interval_endpoint(
                          "gregorian",
                          format_base(jalali_to_gregorian(pr_parts.date[1],
                                                          pr_parts.date[2],
                                                          pr_parts.date[3]))
                          \o pr_sep \o pr_time \o pr_tz)
        ELSE pr_full.status = "ok" =>
                 /\ pr_out.status = "ClickException"
                 /\ pr_out.error \in {"Month must be between 1 and 12",
                                      "Day out of range"}

\* 1404-10-14 10:43:45.024995+03:30 read as Jalali is the instant
\* 2026-01-04 10:43:45.024995+03:30
C16_Witness ==
    /\ pr_pc = "parsed" /\ pr_cal = "jalali"
    /\ pr_date = <<"1", "4", "0", "4", "-", "1", "0", "-", "1", "4">>
    /\ pr_time = <<"1", "0", ":", "4", "3", ":", "4", "5", ".",
                   "0", "2", "4", "9", "9", "5">>
    /\ pr_tz = <<"+", "0", "3", ":", "3", "0">>
    /\ pr_out.status = "ok"
    /\ pr_out.instant = [ord |-> ToOrdinal(2026, 1, 4), sec |-> 38625,
                         micro |-> 24995, off |-> 210]


\* the --full-date value 2026-01-04 10:43:45.024995+03:30
FourthOfJanuaryText ==
    /\ pr_date = <<"2", "0", "2", "6", "-", "0", "1", "-", "0", "4">>
    /\ pr_sep = <<" ">>
    /\ pr_time = <<"1", "0", ":", "4", "3", ":", "4", "5", ".", "0",
               "2", "4", "9", "9", "5">>
    /\ pr_tz = <<"+", "0", "3", ":", "3", "0">>

\* C17: converting 2026-01-04 10:43:45.024995+03:30 from the Gregorian
\* calendar prints the Jalali line 1404-10-14 10:43:45.024995 (Dey), and
\* the Unix line is the epoch of that wall time at offset +03:30, which is
\* 07:13:45.024995 UTC of day 20457 after 1970-01-01: 1767510825.024995.
C17_FourthOfJanuaryInJalali ==
    (pr_pc = "converted" /\ pr_cal = "gregorian" /\ FourthOfJanuaryText) =>
        /\ pr_out.status = "ok"
        /\ Len(pr_lines) = 3
        /\ pr_lines[2] = <<"Jalali:    ">>
                         \o <<"1", "4", "0", "4", "-", "1", "0", "-",
                            "1", "4", " ", "1", "0", ":", "4", "3",
                            ":", "4", "5", ".", "0", "2", "4", "9",
                            "9", "5", " ">>
                         \o <<"(", "Dey", ")">>
        /\ (ToOrdinal(2026, 1, 4) - EpochOrdinal) * 86400
               + (10 * 3600 + 43 * 60 + 45) - (3 * 60 + 30) * 60 = 1767510825
        /\ pr_lines[3] = <<"Unix:      ">>
                         \o <<"1", "7", "6", "7", "5", "1", "0", "8",
                            "2", "5", ".", "0", "2", "4", "9", "9",
                            "5">>

C17_Witness ==
    /\ pr_pc = "converted" /\ pr_cal = "gregorian" /\ FourthOfJanuaryText
    /\ pr_out.status = "ok"
    /\ pr_lines[2][Len(pr_lines[2]) - 1] = "Dey"
    /\ Len(pr_lines[3]) = 18


\* C18: the time-provided flag parse_full_date returns is false exactly
\* when the input has no time portion, and the time is then
\* 00:00:00.000000; it is true whenever a time portion is present, also
\* for an entered 00:00 or 00:00:00.  The inputs are a date, then nothing
\* or a separator with a time portion, a timezone offset, or both.
C18_TimeProvidedFlag ==
    (/\ pr_pc \in {"full", "parsed"}
     /\ pr_parts.status = "ok"
     /\ pr_zone.status \in {"none", "ok"}
     /\ pr_full.status = "ok") =>
        /\ pr_full.provided <=> pr_time # <<>>
        /\ ~pr_full.provided => pr_full.time = NoTime


(***************************************************************************)
(* Specification SpecDateParts: parse_date_parts on every text made of a   *)
(* few digit groups and separators                                         *)
(***************************************************************************)
DatePieces ==
    {<<"2", "0", "2", "6">>, <<"0", "1">>, <<"4">>, <<"-">>, <<"/">>}

MaxDatePieces == 5

InitDateParts ==
    /\ local_off = 0
    /\ pr_pc = "input"
    /\ pr_cal \in {"gregorian", "jalali"}
    /\ pr_date \in Texts(DatePieces, MaxDatePieces)
    /\ pr_sep = <<>> /\ pr_time = <<>> /\ pr_tz = <<>>
    /\ pr_now = NoInstant
    /\ pr_parts = NoOutcome /\ pr_zone = NoOutcome /\ pr_full = NoOutcome
    /\ pr_out = NoOutcome /\ pr_pick = NoOutcome /\ pr_lines = <<>>
    /\ CalOff /\ DfOff /\ IvOff /\ EpOff /\ PgOff /\ VdOff /\ RestOff

NextDateParts == ParseDateParts

SpecDateParts == InitDateParts /\ [][NextDateParts]_vars

\* the separator of a date text that has one: "-" if there is any, else "/"
SeparatorOf(s) == IF \E i \in 1..Len(s) : s[i] = "-" THEN "-" ELSE "/"

SeparatorPlaces(s) == {i \in 1..Len(s) : s[i] = SeparatorOf(s)}

\* the fields of a text with exactly two separators
FirstField(s) ==
    SubSeq(s, 1, (CHOOSE i \in SeparatorPlaces(s) :
                     \A j \in SeparatorPlaces(s) : i <= j) - 1)

LastField(s) ==
    SubSeq(s, (CHOOSE i \in SeparatorPlaces(s) :
                  \A j \in SeparatorPlaces(s) : i >= j) + 1, Len(s))

MiddleField(s) == SubSeq(s, Len(FirstField(s)) + 2, Len(s) - Len(LastField(s)) - 1)

AllFieldsNumbers(s) ==
    IsDigits(FirstField(s)) /\ IsDigits(MiddleField(s)) /\ IsDigits(LastField(s))

DateRead(year, month, day) ==
    /\ pr_parts.status = "ok"
    /\ pr_parts.date = <<int_digits(year), int_digits(month), int_digits(day)>>

DateRefused ==
    pr_parts.status = "ClickException" /\ pr_parts.error = "Invalid date"

\* C19: parse_date_parts reads eight digits as YYYYMMDD; a text with "-"
\* or "/" separators must have exactly three fields, read as year, month,
\* day when the first field has four characters, otherwise as day, month,
\* year when the last field has four; any other separated text is an
\* invalid date.  (A field that is not a number is no date either way.)
C19_DateShapes ==
    pr_pc = "date" =>
        /\ (IsDigits(pr_date) /\ Len(pr_date) = 8) =>
               DateRead(SubSeq(pr_date, 1, 4), SubSeq(pr_date, 5, 6),
                        SubSeq(pr_date, 7, 8))
        /\ (SeparatorPlaces(pr_date) # {}
            /\ Cardinality(SeparatorPlaces(pr_date)) # 2) => DateRefused
        /\ Cardinality(SeparatorPlaces(pr_date)) = 2 =>
               IF Len(FirstField(pr_date)) = 4
               THEN IF AllFieldsNumbers(pr_date)
                    THEN DateRead(FirstField(pr_date), MiddleField(pr_date),
                                  LastField(pr_date))
                    ELSE pr_parts.status # "ok"
               ELSE IF Len(LastField(pr_date)) = 4
               THEN IF AllFieldsNumbers(pr_date)
                    THEN DateRead(LastField(pr_date), MiddleField(pr_date),
                                  FirstField(pr_date))
                    ELSE pr_parts.status # "ok"
               ELSE DateRefused

\* 4-01-2026 is read day first: the fourth of January 2026
C19_Witness ==
    /\ pr_pc = "date"
    /\ pr_date = <<"4", "-", "0", "1", "-", "2", "0", "2", "6">>
    /\ pr_parts.status = "ok"
    /\ pr_parts.date = <<2026, 1, 4>>


(***************************************************************************)
(* Specification SpecZone: parse_timezone_offset on Z and on every signed  *)
(* text made of a few digit groups and colons, after a fixed date          *)
(***************************************************************************)
ZonePieces == {<<"0">>, <<"3">>, <<"0", "3">>, <<"3", "0">>, <<":">>}

MaxZonePieces == 4

\* the timezone portions split_datetime_parts hands over: Z, or a text
\* that starts with a sign
ZoneTexts ==
    {<<"Z">>, <<"z">>}
    \cup {<<sign>> \o payload :
              sign \in {"+", "-"},
              payload \in Texts(ZonePieces, MaxZonePieces)}

InitZone ==
    /\ local_off = 0
    /\ pr_pc = "input"
    /\ pr_cal \in {"gregorian", "jalali"}
    /\ pr_date = <<"2", "0", "2", "6", "-", "0", "1", "-", "0", "4">>
    /\ pr_sep = <<"T">>
    /\ pr_time = <<"1", "0", ":", "4", "3">>
    /\ pr_tz \in ZoneTexts
    /\ pr_now = NoInstant
    /\ pr_parts = NoOutcome /\ pr_zone = NoOutcome /\ pr_full = NoOutcome
    /\ pr_out = NoOutcome /\ pr_pick = NoOutcome /\ pr_lines = <<>>
    /\ CalOff /\ DfOff /\ IvOff /\ EpOff /\ PgOff /\ VdOff /\ RestOff

NextZone ==
    \/ ParseDateParts
    \/ ParseTimezoneOffset

SpecZone == InitZone /\ [][NextZone]_vars

\* two digits, as HH (00..23) or MM (00..59)
TwoDigitNumber(s, most) ==
    Len(s) = 2 /\ IsDigits(s) /\ int_digits(s) <= most

\* the offset in minutes that a payload HH:MM, HHMM or HH spells, and -1
\* for any other payload
SpelledMinutes(payload) ==
    IF /\ Len(payload) = 5 /\ payload[3] = ":"
       /\ TwoDigitNumber(SubSeq(payload, 1, 2), 23)
       /\ TwoDigitNumber(SubSeq(payload, 4, 5), 59)
    THEN int_digits(SubSeq(payload, 1, 2)) * 60
         + int_digits(SubSeq(payload, 4, 5))
    ELSE IF /\ Len(payload) = 4
            /\ TwoDigitNumber(SubSeq(payload, 1, 2), 23)
            /\ TwoDigitNumber(SubSeq(payload, 3, 4), 59)
    THEN int_digits(SubSeq(payload, 1, 2)) * 60
         + int_digits(SubSeq(payload, 3, 4))
    ELSE IF TwoDigitNumber(payload, 23) THEN int_digits(payload) * 60
    ELSE -1

\* C20: parse_timezone_offset accepts Z, +HH:MM, +HHMM and +HH, and the
\* same with "-": Z is offset 0, and a signed payload that spells HH hours
\* and MM minutes in any of the three forms gives HH * 60 + MM minutes,
\* negated after "-"; so +03:30 = +0330, +03 = +03:00 and Z = +00:00.
C20_OffsetSpellings ==
    pr_pc = "zone" =>
        /\ pr_tz \in {<<"Z">>, <<"z">>} =>
               pr_zone.status = "ok" /\ pr_zone.off = 0
        /\ (pr_tz[1] = "+" /\ SpelledMinutes(Tail(pr_tz)) >= 0) =>
               /\ pr_zone.status = "ok"
               /\ pr_zone.off = SpelledMinutes(Tail(pr_tz))
        /\ (pr_tz[1] = "-" /\ SpelledMinutes(Tail(pr_tz)) >= 0) =>
               /\ pr_zone.status = "ok"
               /\ pr_zone.off = -SpelledMinutes(Tail(pr_tz))

\* -0330 is 210 minutes west of UTC
C20_Witness ==
    /\ pr_pc = "zone"
    /\ pr_tz = <<"-", "0", "3", "3", "0">>
    /\ pr_zone.status = "ok" /\ pr_zone.off = -210

(***************************************************************************)
(* The time tracker (pytime.py): the table time_entries and the commands   *)
(* start, end, add, edit and delete.  An instant is a whole number of      *)
(* clock ticks: datetime.timestamp() and datetime.fromtimestamp() keep the *)
(* order of the instants, and the commands only compare them.  The texts   *)
(* given for --start and --end stand for the instants they parse to, a     *)
(* --duration for the ticks apply_interval adds.  SQL NULL and Python None *)
(* are the empty sequence and a value v that is present is <<v>>.  The     *)
(* option --project is left out of every command, so that the column       *)
(* project is NULL.                                                        *)
(***************************************************************************)
NULL == <<>>
NoOption == <<>>

\* a row of time_entries
Entry(id, task, start_ts, end_ts) ==
    [id |-> id, project |-> NULL, task |-> task, start_ts |-> start_ts,
     end_ts |-> end_ts]

\* what a command did: the exception that ended it (if any), the table and
\* the AUTOINCREMENT counter it left, and the ids of the rows it selected
Done(db, seq, rows) ==
    [status |-> "ok", error |-> "none", db |-> db, seq |-> seq, rows |-> rows]
Raised(error, db, seq, rows) ==
    [status |-> "ClickException", error |-> error, db |-> db, seq |-> seq,
     rows |-> rows]

ids_of(rows) == {r.id : r \in rows}

\* the rows _end_entries selects: end_ts IS NULL AND id = ? AND task = ?
unfinished_rows(db, entry_id, task) ==
    {r \in db : /\ r.end_ts = NULL
                /\ entry_id # NoOption => r.id = entry_id[1]
                /\ task # NoOption => r.task = task[1]}

\* UPDATE time_entries SET end_ts = now WHERE id = ?, for every row of rows
end_rows(db, rows, now) ==
    {IF r \in rows THEN [r EXCEPT !.end_ts = <<now>>] ELSE r : r \in db}

\* A slip: every row that has started is ended before the exception for a
\* row in the future is raised.
end_rows_checked_row_by_row(db, seq, rows, now) ==
    IF \E r \in rows : now < r.start_ts
    THEN Raised("Cannot end an entry before its start time",
                end_rows(db, {r \in rows : ~(now < r.start_ts)}, now), seq,
                ids_of(rows))
    ELSE Done(end_rows(db, rows, now), seq, ids_of(rows))

\* _end_entries on the rows it selected: all of them are checked, then all
\* of them are updated
end_rows_checked(db, seq, rows, now) ==
    IF \E r \in rows : now < r.start_ts
    THEN Raised("Cannot end an entry before its start time", db, seq,
                ids_of(rows))
    ELSE Done(end_rows(db, rows, now), seq, ids_of(rows))

_end_entries_rows(db, seq, rows, now, allow_empty) ==
    IF rows = {}
    THEN IF allow_empty THEN Done(db, seq, {})
         ELSE Raised("No unfinished entry matches the provided filters",
                     db, seq, {})
    ELSE end_rows_checked(db, seq, rows, now)

_end_entries(db, seq, now, entry_id, task, allow_empty) ==
    _end_entries_rows(db, seq, unfinished_rows(db, entry_id, task), now,
                      allow_empty)

\* INSERT INTO time_entries: the id is one more than the largest id handed
\* out so far
insert(db, seq, task, start_ts, end_ts) ==
    Done(db \cup {Entry(seq + 1, task, start_ts, end_ts)}, seq + 1, {})

\* start, once _end_entries has returned or raised (ended)
start_after_end(ended, task, now) ==
    IF ended.status # "ok" THEN ended
    ELSE [insert(ended.db, ended.seq, task, now, NULL)
              EXCEPT !.rows = ended.rows]

\* A slip: start inserts the new entry without ending the unfinished ones.
start_without_end(db, seq, now, end_now, task) ==
    start_after_end(Done(db, seq, {}), task, now)

\* start TASK: now is read first, end_now by _end_entries
start(db, seq, now, end_now, task) ==
    start_after_end(_end_entries(db, seq, end_now, NoOption, NoOption, TRUE),
                    task, now)

\* end --id ... --task ...
end(db, seq, now, entry_id, task) ==
    _end_entries(db, seq, now, entry_id, task, FALSE)

\* add, once start_dt and end_dt are known
add_entry(db, seq, task, start_dt, end_dt) ==
    IF end_dt < start_dt
    THEN Raised("End time cannot be before start time", db, seq, {})
    ELSE insert(db, seq, task, start_dt, <<end_dt>>)

\* add TASK START --end ... --duration ...
add(db, seq, task, start_dt, end_value, duration) ==
    IF end_value # NoOption /\ duration # NoOption
    THEN Raised("Use either --end or --duration, not both", db, seq, {})
    ELSE IF end_value = NoOption /\ duration = NoOption
    THEN Raised("Provide --end or --duration", db, seq, {})
    ELSE add_entry(db, seq, task, start_dt,
                   IF end_value # NoOption THEN end_value[1]
                   ELSE start_dt + duration[1])

\* the row edit selects: the one with the id, or the one with the largest id
edit_rows(db, entry_id) ==
    IF entry_id = NoOption
    THEN {r \in db : \A o \in db : o.id <= r.id}
    ELSE {r \in db : r.id = entry_id[1]}

\* UPDATE time_entries SET ... WHERE id = ?: the columns an option or the
\* duration gave a value for
edit_update(row, start_dt, end_dt, task) ==
    [row EXCEPT !.start_ts = IF start_dt # NoOption THEN start_dt[1] ELSE @,
                !.end_ts = IF end_dt # NoOption THEN end_dt ELSE @,
                !.task = IF task # NoOption THEN task[1] ELSE @]

\* A slip: the end is compared with the start the row has, also when a new
\* start is given.
edit_checked_against_current_start(db, seq, row, start_dt, end_dt, task) ==
    IF /\ (IF end_dt # NoOption THEN end_dt ELSE row.end_ts) # NULL
       /\ (IF end_dt # NoOption THEN end_dt ELSE row.end_ts)[1] < row.start_ts
    THEN Raised("End time cannot be before start time", db, seq, {row.id})
    ELSE Done((db \ {row}) \cup {edit_update(row, start_dt, end_dt, task)},
              seq, {row.id})

\* edit, once the row is selected and end_dt is the --end given or the end
\* computed from the duration
edit_checked(db, seq, row, start_dt, end_dt, task) ==
    IF /\ (IF end_dt # NoOption THEN end_dt ELSE row.end_ts) # NULL
       /\ (IF end_dt # NoOption THEN end_dt ELSE row.end_ts)[1]
              < (IF start_dt # NoOption THEN start_dt[1] ELSE row.start_ts)
    THEN Raised("End time cannot be before start time", db, seq, {row.id})
    ELSE Done((db \ {row}) \cup {edit_update(row, start_dt, end_dt, task)},
              seq, {row.id})

edit_row(db, seq, row, start_dt, end_value, duration, task) ==
    edit_checked(db, seq, row, start_dt,
                 IF duration # NoOption
                 THEN <<(IF start_dt # NoOption THEN start_dt[1]
                         ELSE row.start_ts) + duration[1]>>
                 ELSE end_value,
                 task)

edit_selected(db, seq, rows, start_dt, end_value, duration, task) ==
    IF rows = {} THEN Raised("Entry not found", db, seq, {})
    ELSE edit_row(db, seq, CHOOSE r \in rows : TRUE, start_dt, end_value,
                  duration, task)

\* edit --id ... --last --start ... --end ... --duration ... --task ...
edit(db, seq, entry_id, edit_last, start_dt, end_value, duration, task) ==
    IF entry_id # NoOption /\ edit_last
    THEN Raised("Use either --id or --last, not both", db, seq, {})
    ELSE IF entry_id = NoOption /\ ~edit_last
    THEN Raised("Provide --id or --last to select an entry", db, seq, {})
    ELSE IF duration # NoOption /\ end_value # NoOption
    THEN Raised("Duration is incompatible with an explicit end time",
                db, seq, {})
    ELSE IF /\ start_dt = NoOption /\ end_value = NoOption
            /\ task = NoOption /\ duration = NoOption
    THEN Raised("No updates specified", db, seq, {})
    ELSE edit_selected(db, seq, edit_rows(db, entry_id), start_dt, end_value,
                       duration, task)

\* the rows delete finds: id = ? AND task LIKE ? AND start_ts >= ? AND
\* start_ts <= ? (the task names of the model are single lower-case letters,
\* for which LIKE '%x%' is equality)
delete_rows(db, entry_id, task, start_dt, end_dt) ==
    {r \in db : /\ entry_id # NoOption => r.id = entry_id[1]
                /\ task # NoOption => r.task = task[1]
                /\ start_dt # NoOption => r.start_ts >= start_dt[1]
                /\ end_dt # NoOption => r.start_ts <= end_dt[1]}

\* delete --id ... --task ... --start ... --end ..., confirmed is --yes or
\* the answer to "Proceed with deletion?" (--interval stands for a --start
\* and an --end)
delete(db, seq, entry_id, task, start_dt, end_dt, confirmed) ==
    IF delete_rows(db, entry_id, task, start_dt, end_dt) = {} \/ ~confirmed
    THEN Done(db, seq, {})
    ELSE Done(db \ delete_rows(db, entry_id, task, start_dt, end_dt), seq,
              ids_of(delete_rows(db, entry_id, task, start_dt, end_dt)))

(***************************************************************************)
(* Specification SpecTrack: start, end, add, edit and delete run one at a  *)
(* time on a table that is empty at first                                  *)
(***************************************************************************)
\* the clock runs from 0 to MaxClock, and so do the instants given
MaxClock == 2

\* at most MaxEntries rows are ever inserted
MaxEntries == 2

Times == 0..MaxClock
Tasks == {"t", "u"}
Durations == {-1, 1}

Option(values) == {NoOption} \cup {<<v>> : v \in values}

\* the command that ran last: its name, how it ended and the ids of the
\* rows it selected
Ran(cmd, r) ==
    [cmd |-> cmd, status |-> r.status, error |-> r.error, rows |-> r.rows]

\* the options edit is run with: a selection by --id, by --last, by both or
\* by none, every combination of --start, --end and --duration, and a
\* --task on its own or with a --start
EditOptions ==
    {o \in [entry_id : Option(1..MaxEntries), edit_last : BOOLEAN,
            start_dt : Option(Times), end_value : Option(Times),
            duration : Option(Durations), task : Option(Tasks)] :
        /\ (o.entry_id # NoOption /\ o.edit_last) =>
               /\ o.entry_id = <<1>> /\ o.start_dt = <<0>>
               /\ o.end_value = NoOption /\ o.duration = NoOption
        /\ o.task # NoOption =>
               /\ o.end_value = NoOption /\ o.duration = NoOption
               /\ o.start_dt \in {NoOption, <<0>>}}

\* the filters delete is run with: every combination of --id and --task,
\* and of a --start and an --end at the first tick
DeleteOptions ==
    [entry_id : Option(1..MaxEntries), task : Option(Tasks),
     start_dt : Option({1}), end_dt : Option({1}), confirmed : BOOLEAN]

InitTrack ==
    /\ EngineOff /\ DtOff /\ PfOff
    /\ tt_pc = "run"
    /\ tt_db = {}
    /\ tt_seq = 0
    /\ tt_clock \in Times
    /\ tt_last = NoCommand
    /\ tt_proc = <<>>

\* no start command is between two of its steps
Quiet == \A p \in DOMAIN tt_proc : tt_proc[p].pc \in {"idle", "done", "failed"}

\* time passes between two commands
Tick ==
    /\ tt_pc = "run"
    /\ tt_clock < MaxClock
    /\ tt_clock' = tt_clock + 1
    /\ UNCHANGED <<tt_pc, tt_db, tt_seq, tt_last, tt_proc>>
    /\ UNCHANGED <<engineVars, dtVars, pfVars>>

\* the table, the counter and the record of the command after a command
\* that did r
Command(cmd, r) ==
    /\ tt_db' = r.db
    /\ tt_seq' = r.seq
    /\ tt_last' = Ran(cmd, r)
    /\ UNCHANGED <<tt_pc, tt_proc>>
    /\ UNCHANGED <<engineVars, dtVars, pfVars>>

\* start TASK: the clock may tick between the two times it is read
Start ==
    /\ tt_pc = "run" /\ Quiet
    /\ tt_seq < MaxEntries
    /\ \E task \in Tasks : \E end_now \in {tt_clock, tt_clock + 1} \cap Times :
          /\ Command("start", start(tt_db, tt_seq, tt_clock, end_now, task))
          /\ tt_clock' = end_now

End ==
    /\ tt_pc = "run" /\ Quiet
    /\ \E entry_id \in Option(1..MaxEntries) : \E task \in Option(Tasks) :
          Command("end", end(tt_db, tt_seq, tt_clock, entry_id, task))
    /\ UNCHANGED tt_clock

Add ==
    /\ tt_pc = "run" /\ Quiet
    /\ tt_seq < MaxEntries
    /\ \E task \in Tasks : \E start_dt \in Times :
       \E end_value \in Option(Times) : \E duration \in Option(Durations) :
          Command("add", add(tt_db, tt_seq, task, start_dt, end_value,
                             duration))
    /\ UNCHANGED tt_clock

EditWith(options) ==
    /\ tt_pc = "run" /\ Quiet
    /\ \E o \in options :
          Command("edit", edit(tt_db, tt_seq, o.entry_id, o.edit_last,
                               o.start_dt, o.end_value, o.duration, o.task))
    /\ UNCHANGED tt_clock

Edit == EditWith(EditOptions)

Delete ==
    /\ tt_pc = "run" /\ Quiet
    /\ \E o \in DeleteOptions :
          Command("delete", delete(tt_db, tt_seq, o.entry_id, o.task,
                                   o.start_dt, o.end_dt, o.confirmed))
    /\ UNCHANGED tt_clock

NextTrack == Tick \/ Start \/ End \/ Add \/ Edit \/ Delete

SpecTrack == InitTrack /\ [][NextTrack]_vars

\* the rows without an end time
OpenEntries == {r \in tt_db : r.end_ts = NULL}


\* C21: after a start that succeeded the entry it inserted (the one with the
\* id handed out last) is the only entry without an end time, and after any
\* commands run one at a time from an empty table at most one entry is open.
C21_OneOpenEntry ==
    /\ Cardinality(OpenEntries) <= 1
    /\ (tt_last.cmd = "start" /\ tt_last.status = "ok") =>
           \E r \in tt_db : /\ r.id = tt_seq
                            /\ OpenEntries = {r}

\* a start that ended the entry started before it
C21_Witness ==
    /\ tt_last.cmd = "start" /\ tt_last.status = "ok"
    /\ tt_last.rows = {1}
    /\ tt_seq = 2
    /\ \E r \in tt_db : r.id = 1 /\ r.end_ts # NULL
    /\ \E r \in tt_db : r.id = 2 /\ r.end_ts = NULL

\* every entry that has an end time ends at or after its start
EndsAfterStart == \A r \in tt_db : r.end_ts # NULL => r.end_ts[1] >= r.start_ts

\* C27: every stored entry that has an end time has end_ts >= start_ts, and
\* a command that fails (an add, an edit or an end refused because the end
\* would come before the start among them) leaves the table as it was.
C27_EndNotBeforeStart ==
    /\ []EndsAfterStart
    /\ [][tt_last'.status = "ClickException" => tt_db' = tt_db]_vars

\* an edit that was refused because the end would come before the start, on
\* a table that holds a finished entry
C27_Witness ==
    /\ tt_last.cmd = "edit"
    /\ tt_last.error = "End time cannot be before start time"
    /\ \E r \in tt_db : r.end_ts # NULL /\ r.id \in tt_last.rows


(***************************************************************************)
(* Specification SpecRace: two start commands run as two processes on the  *)
(* same database file.  A start reads now, then _end_entries reads its own *)
(* now and selects the unfinished rows (a SELECT outside any transaction), *)
(* updates them in one transaction, and after that the INSERT runs in a    *)
(* transaction of its own.  end and edit run as whole commands while no    *)
(* start is under way.                                                     *)
(***************************************************************************)
Procs == {1, 2}

IdleProcess ==
    [pc |-> "idle", task |-> "none", now |-> 0, end_now |-> 0, rows |-> {}]

\* the task each process starts
TaskOf(p) == IF p = 1 THEN "t" ELSE "u"

\* the edits run between the starts: a new --start for the row with an id
\* or for the last row
RescheduleOptions ==
    {o \in EditOptions : /\ o.start_dt # NoOption
                         /\ o.entry_id = NoOption \/ ~o.edit_last
                         /\ o.end_value = NoOption /\ o.duration = NoOption
                         /\ o.task = NoOption}

InitRace ==
    /\ EngineOff /\ DtOff /\ PfOff
    /\ tt_pc = "run"
    /\ tt_db = {}
    /\ tt_seq = 0
    /\ tt_clock = 0
    /\ tt_last = NoCommand
    /\ tt_proc = [p \in Procs |-> IdleProcess]

\* a step of the start command of process p: its new record and what the
\* step did to the table
StartStep(p, proc, r) ==
    /\ tt_proc' = [tt_proc EXCEPT ![p] = proc]
    /\ tt_db' = r.db
    /\ tt_seq' = r.seq
    /\ tt_last' = [Ran("start", r) EXCEPT !.status = proc.pc]
    /\ UNCHANGED <<tt_pc, tt_clock>>
    /\ UNCHANGED <<engineVars, dtVars, pfVars>>

\* start TASK: now = datetime.now().astimezone()
StartBegin(p) ==
    /\ tt_proc[p].pc = "idle"
    /\ StartStep(p, [tt_proc[p] EXCEPT !.pc = "begun", !.task = TaskOf(p),
                                       !.now = tt_clock],
                 Done(tt_db, tt_seq, {}))

\* _end_entries: now is read, the unfinished rows are selected and each of
\* them is compared with now
StartSelect(p) ==
    /\ tt_proc[p].pc = "begun"
    /\ StartStep(p,
                 [tt_proc[p] EXCEPT
                     !.end_now = tt_clock,
                     !.rows = ids_of(unfinished_rows(tt_db, NoOption, NoOption)),
                     !.pc = IF unfinished_rows(tt_db, NoOption, NoOption) = {}
                            THEN "ended"
                            ELSE IF end_rows_checked(
                                        tt_db, tt_seq,
                                        unfinished_rows(tt_db, NoOption, NoOption),
                                        tt_clock).status = "ok"
                            THEN "selected" ELSE "failed"],
                 Done(tt_db, tt_seq,
                      ids_of(unfinished_rows(tt_db, NoOption, NoOption))))

\* _end_entries: UPDATE time_entries SET end_ts = now WHERE id = ?, for the
\* ids selected, committed when the with block is left
StartUpdate(p) ==
    /\ tt_proc[p].pc = "selected"
    /\ StartStep(p, [tt_proc[p] EXCEPT !.pc = "ended"],
                 Done(end_rows(tt_db, {r \in tt_db : r.id \in tt_proc[p].rows},
                               tt_proc[p].end_now),
                      tt_seq, tt_proc[p].rows))

\* start: the INSERT, in its own transaction
StartInsert(p) ==
    /\ tt_proc[p].pc = "ended"
    /\ StartStep(p, [tt_proc[p] EXCEPT !.pc = "done"],
                 insert(tt_db, tt_seq, tt_proc[p].task, tt_proc[p].now, NULL))

Reschedule == EditWith(RescheduleOptions)

NextRace ==
    \/ Tick
    \/ \E p \in Procs : StartBegin(p)
    \/ \E p \in Procs : StartSelect(p)
    \/ \E p \in Procs : StartUpdate(p)
    \/ \E p \in Procs : StartInsert(p)
    \/ End
    \/ Reschedule

SpecRace == InitRace /\ [][NextRace]_vars


\* the rows of the table that the command or step that ran last selected
SelectedRows == {r \in tt_db : r.id \in tt_last'.rows}

\* a step that is a whole end command
EndStep == tt_last'.cmd = "end" /\ tt_clock' = tt_clock

\* C28: _end_entries is all-or-nothing.  If a selected unfinished entry
\* starts later than now, the command fails and the table is unchanged, and
\* a start that fails so never inserts; otherwise every selected entry gets
\* the end time now and no other entry is changed.
C28_EndAllOrNothing ==
    /\ [][EndStep =>
            /\ SelectedRows \subseteq OpenEntries
            /\ IF \E r \in SelectedRows : tt_clock < r.start_ts
               THEN /\ tt_last'.status = "ClickException"
                    /\ tt_db' = tt_db
               ELSE /\ SelectedRows # {} => tt_last'.status = "ok"
                    /\ tt_db' = {IF r \in SelectedRows
                                 THEN [r EXCEPT !.end_ts = <<tt_clock>>]
                                 ELSE r : r \in tt_db}]_vars
    /\ [][\A p \in Procs :
            /\ (tt_proc[p].pc = "begun" /\ tt_proc'[p].pc # "begun") =>
                   /\ tt_db' = tt_db
                   /\ tt_proc'[p].pc = "failed"
                          <=> \E r \in OpenEntries : tt_clock < r.start_ts
            /\ tt_proc[p].pc = "failed" =>
                   /\ tt_proc'[p].pc = "failed"
                   /\ tt_seq' = tt_seq \/ \E q \in Procs : tt_proc'[q].pc = "done"
                                                       /\ tt_proc[q].pc # "done"
            /\ (tt_proc[p].pc = "selected" /\ tt_proc'[p].pc = "ended") =>
                   tt_db' = {IF r.id \in tt_proc[p].rows
                             THEN [r EXCEPT !.end_ts = <<tt_proc[p].end_now>>]
                             ELSE r : r \in tt_db}]_vars

\* an end that failed on two unfinished entries, one of which starts later
\* than now and one of which does not
C28_Witness ==
    /\ tt_last.cmd = "end" /\ tt_last.status = "ClickException"
    /\ tt_last.rows = {1, 2}
    /\ \E r \in OpenEntries : tt_clock < r.start_ts
    /\ \E r \in OpenEntries : ~(tt_clock < r.start_ts)

\* both start commands have finished
StartsFinished == \A p \in Procs : tt_proc[p].pc \in {"done", "failed"}

\* C29: two start commands that ran concurrently do not finish with two
\* entries open.
C29_NoTwoOpenAfterStarts ==
    StartsFinished => Cardinality(OpenEntries) <= 1


(***************************************************************************)
(* The double tunnel (pyssh.py), run without --reconnecting.  The files    *)
(* are those of the directory .tmp; a pid file holds the name of the       *)
(* process whose pid was written into it ("stale" is a process another run *)
(* left a pid file for).  An ssh process runs until it is killed.          *)
(***************************************************************************)
TmpFiles == {".tmp_p1", ".tmp_p2", ".ssh1_pid", ".ssh2_pid"}

\* f.exists()
exists(files, f) == files[f] # "absent"

\* kill_by_pid: kill -9 of the process a pid file names
kill_by_pid(procs, pid) == [procs EXCEPT ![pid] = "killed"]

\* one round of the loop of _kill_ssh_1_and_2_processes: the process a pid
\* file names, if the file exists
kill_named_by(files, procs, f) ==
    IF exists(files, f) THEN kill_by_pid(procs, files[f]) ELSE procs

\* and the pid file afterwards
unlink_if_exists(files, f) == [files EXCEPT ![f] = "absent"]

InitTunnel ==
    /\ EngineOff /\ TtOff /\ PfOff
    /\ dt_pc = "start"
    /\ dt_env \in [pass1 : BOOLEAN, pass2 : BOOLEAN,
                   port1 : BOOLEAN, port2 : BOOLEAN]
    /\ \E pid1 \in {"absent", "stale"} : \E pid2 \in {"absent", "stale"} :
          dt_files = [f \in TmpFiles |->
                         IF f = ".ssh1_pid" THEN pid1
                         ELSE IF f = ".ssh2_pid" THEN pid2 ELSE "absent"]
    /\ dt_procs = [ssh1 |-> "none", ssh2 |-> "none", stale |-> "alive"]
    /\ dt_out = [reported |-> FALSE, interrupted |-> FALSE, error |-> "none"]

TunnelOthers == UNCHANGED <<engineVars, ttVars, pfVars, dt_env>>

\* double_tunnel writes the two passwords into .tmp_p1 and .tmp_p2, before
\* its try statement: open(..., 'w') creates the file, write(None) raises
WritePasswords ==
    /\ dt_pc = "start"
    /\ dt_files' = [dt_files EXCEPT
                       ![".tmp_p1"] = IF dt_env.pass1 THEN "password"
                                      ELSE "empty",
                       ![".tmp_p2"] = IF ~dt_env.pass1 THEN @
                                      ELSE IF dt_env.pass2 THEN "password"
                                      ELSE "empty"]
    /\ dt_pc' = IF dt_env.pass1 /\ dt_env.pass2 THEN "try" ELSE "exit"
    /\ dt_out' = [dt_out EXCEPT
                     !.error = IF dt_env.pass1 /\ dt_env.pass2 THEN @
                               ELSE "TypeError"]
    /\ UNCHANGED dt_procs
    /\ TunnelOthers

\* double_tunnel_base: both local ports have to be free, else return False
CheckPorts ==
    /\ dt_pc = "try"
    /\ dt_pc' = IF dt_env.port1 /\ dt_env.port2 THEN "checked" ELSE "cleanup"
    /\ UNCHANGED <<dt_files, dt_procs, dt_out>>
    /\ TunnelOthers

\* subprocess.Popen of the ssh command of tunnel n, then its pid file
StartSsh(n, at, next) ==
    /\ dt_pc = at
    /\ dt_procs' = [dt_procs EXCEPT ![IF n = 1 THEN "ssh1" ELSE "ssh2"] = "alive"]
    /\ IF exists(dt_files, IF n = 1 THEN ".ssh1_pid" ELSE ".ssh2_pid")
       THEN /\ dt_out' = [dt_out EXCEPT !.error = "ClickException"]
            /\ dt_pc' = "cleanup"
            /\ UNCHANGED dt_files
       ELSE /\ dt_files' = [dt_files EXCEPT
                               ![IF n = 1 THEN ".ssh1_pid" ELSE ".ssh2_pid"] =
                                   IF n = 1 THEN "ssh1" ELSE "ssh2"]
            /\ dt_pc' = next
            /\ UNCHANGED dt_out
    /\ TunnelOthers

StartSsh1 == StartSsh(1, "checked", "tunnel1")

\* time.sleep(2)
Sleep ==
    /\ dt_pc = "tunnel1"
    /\ dt_pc' = "slept"
    /\ UNCHANGED <<dt_files, dt_procs, dt_out>>
    /\ TunnelOthers

StartSsh2 == StartSsh(2, "slept", "tunnel2")

\* click.echo("Double SSH tunnel is running. ... Press Ctrl-C to stop."),
\* after which double_tunnel_base returns and the finally clause of
\* double_tunnel runs
Report ==
    /\ dt_pc = "tunnel2"
    /\ dt_out' = [dt_out EXCEPT !.reported = TRUE]
    /\ dt_pc' = "cleanup"
    /\ UNCHANGED <<dt_files, dt_procs>>
    /\ TunnelOthers

\* Ctrl-C while the try statement runs
Interrupt ==
    /\ dt_pc \in {"try", "checked", "tunnel1", "slept", "tunnel2"}
    /\ dt_out' = [dt_out EXCEPT !.interrupted = TRUE,
                                !.error = "KeyboardInterrupt"]
    /\ dt_pc' = "cleanup"
    /\ UNCHANGED <<dt_files, dt_procs>>
    /\ TunnelOthers

\* cleanup: the two password files are unlinked
UnlinkPasswords ==
    /\ dt_pc = "cleanup"
    /\ dt_files' = [dt_files EXCEPT ![".tmp_p1"] = "absent",
                                    ![".tmp_p2"] = "absent"]
    /\ dt_pc' = "kill1"
    /\ UNCHANGED <<dt_procs, dt_out>>
    /\ TunnelOthers

\* _kill_ssh_1_and_2_processes, one round of its loop
KillSsh(f, at, next) ==
    /\ dt_pc = at
    /\ dt_procs' = kill_named_by(dt_files, dt_procs, f)
    /\ dt_files' = unlink_if_exists(dt_files, f)
    /\ dt_pc' = next
    /\ UNCHANGED dt_out
    /\ TunnelOthers

KillSsh1 == KillSsh(".ssh1_pid", "kill1", "kill2")
KillSsh2 == KillSsh(".ssh2_pid", "kill2", "exit")

NextTunnel ==
    \/ WritePasswords
    \/ CheckPorts
    \/ StartSsh1
    \/ Sleep
    \/ StartSsh2
    \/ Report
    \/ Interrupt
    \/ UnlinkPasswords
    \/ KillSsh1
    \/ KillSsh2

SpecTunnel == InitTunnel /\ [][NextTunnel]_vars

\* C22: once the tunnel is reported as running, both ssh processes stay
\* alive for as long as the user has not interrupted the command.
C22_TunnelStaysUp ==
    (dt_out.reported /\ ~dt_out.interrupted) =>
        /\ dt_procs["ssh1"] = "alive"
        /\ dt_procs["ssh2"] = "alive"


(***************************************************************************)
(* partition --partitions n --split-based-on count (pyfm.py).  The file    *)
(* system is a set of entries: a path (the sequence of its names), its     *)
(* kind, and for a file the name it had at first, which stands for its     *)
(* content.                                                                *)
(***************************************************************************)
File(path, id) == [path |-> path, kind |-> "file", id |-> id]
Dir(path) == [path |-> path, kind |-> "dir", id |-> "none"]

path_exists(fs, p) == \E e \in fs : e.path = p
is_dir(fs, p) == \E e \in fs : e.path = p /\ e.kind = "dir"
is_under(p, q) == Len(p) <= Len(q) /\ SubSeq(q, 1, Len(p)) = p

\* os.rename(src, dst) where it succeeds: src and all below it are found at
\* dst, and the file that was at dst is replaced
os_rename(fs, src, dst) ==
    {e \in fs : ~is_under(src, e.path) /\ e.path # dst}
        \cup {[e EXCEPT !.path = dst \o SubSeq(e.path, Len(src) + 1,
                                               Len(e.path))] :
                 e \in {x \in fs : is_under(src, x.path)}}

\* shutil.move once real_dst is known: os.rename, and when that raises
\* OSError the copy, which raises too (a directory renamed onto a file is
\* refused, and copytree then finds real_dst existing; a missing src is
\* missing for copy2 as well)
move_to(fs, src, real_dst) ==
    IF ~path_exists(fs, src)
    THEN [status |-> "FileNotFoundError", fs |-> fs]
    ELSE IF is_dir(fs, src) /\ path_exists(fs, real_dst)
    THEN [status |-> "FileExistsError", fs |-> fs]
    ELSE [status |-> "ok", fs |-> os_rename(fs, src, real_dst)]

\* shutil.move(src, dst)
shutil_move(fs, src, dst) ==
    IF is_dir(fs, dst)
    THEN IF src = dst
         THEN [status |-> "ok", fs |-> fs]
         ELSE IF path_exists(fs, Append(dst, src[Len(src)]))
         THEN [status |-> "shutil.Error", fs |-> fs]
         ELSE move_to(fs, src, Append(dst, src[Len(src)]))
    ELSE move_to(fs, src, dst)

\* the directory names mkdirs makes for fewer than ten partitions
PartName(i) ==
    <<"part-1", "part-2", "part-3", "part-4", "part-5", "part-6", "part-7",
      "part-8", "part-9">>[i]

\* mkdirs(1, n, destination, 'part'): the n directories, or none of them
\* and exit(-1) when one of the names exists
mkdirs(fs, n, destination) ==
    IF \E i \in 1..n : path_exists(fs, Append(destination, PartName(i)))
    THEN [status |-> "exit", fs |-> fs]
    ELSE [status |-> "ok",
          fs |-> fs \cup {Dir(Append(destination, PartName(i))) : i \in 1..n}]

\* re.search(pattern, name) for the patterns and names of the model
FileNames == {"a", "b", "c"}
Patterns == {".*", "^[abc]$"}
re_search(pattern, name) == pattern = ".*" \/ name \in FileNames

\* the loop of split_based_on_count from directory i on: the first
\* files_per_dir (+ 1 while i <= residual) paths of the list go to
\* directory i, the rest to the directories after it
RECURSIVE split_from(_, _, _, _, _)
split_from(i, n_partition, files_per_dir, residual, files_or_dirs) ==
    IF i > n_partition THEN <<>>
    ELSE [k \in 1..(IF files_per_dir + (IF i <= residual THEN 1 ELSE 0)
                          <= Len(files_or_dirs)
                       THEN files_per_dir + (IF i <= residual THEN 1 ELSE 0)
                       ELSE Len(files_or_dirs))
             |-> <<files_or_dirs[k], i>>]
         \o split_from(i + 1, n_partition, files_per_dir, residual,
                       SubSeq(files_or_dirs,
                              files_per_dir + (IF i <= residual THEN 1 ELSE 0)
                                  + 1,
                              Len(files_or_dirs)))

\* split_based_on_count: the moves in the order they are made
split_based_on_count(n_partition, files_or_dirs) ==
    split_from(1, n_partition, Len(files_or_dirs) \div n_partition,
               Len(files_or_dirs) % n_partition, files_or_dirs)

(***************************************************************************)
(* Specification SpecPartition: one run of partition on a source directory *)
(* that holds some of the files a, b, c                                    *)
(***************************************************************************)
\* at most MaxPartitions partitions are asked for
MaxPartitions == 3

Source == <<"src">>

\* --destination, or the source when the option is not given
Destination == IF pf_in.same THEN Source ELSE <<"dst">>

\* the names in the source directory that match the pattern
listed_names ==
    {e.path[2] : e \in {x \in pf_fs : Len(x.path) = 2 /\ x.path[1] = "src"
                                      /\ re_search(pf_in.pattern, x.path[2])}}

\* source.iterdir() yields the names in any order
Orders(names) ==
    {o \in [1..Cardinality(names) -> names] :
        \A i, j \in 1..Cardinality(names) : o[i] = o[j] => i = j}

InitPartition ==
    /\ EngineOff /\ TtOff /\ DtOff
    /\ pf_pc = "start"
    /\ pf_in \in [names : SUBSET FileNames, same : BOOLEAN, stale : BOOLEAN,
                  pattern : Patterns, n : 2..MaxPartitions]
    /\ pf_fs = {Dir(Source), Dir(<<"dst">>)}
                  \cup {File(Append(Source, x), x) : x \in pf_in.names}
                  \cup (IF pf_in.stale
                        THEN {Dir(Append(Destination, PartName(2)))} ELSE {})
    /\ pf_plan = <<>>
    /\ pf_err = "none"

PartitionOthers == UNCHANGED <<engineVars, ttVars, dtVars, pf_in>>

\* split_to_n_dir: mkdirs
Mkdirs ==
    /\ pf_pc = "start"
    /\ pf_fs' = mkdirs(pf_fs, pf_in.n, Destination).fs
    /\ pf_pc' = IF mkdirs(pf_fs, pf_in.n, Destination).status = "ok"
                THEN "made" ELSE "exit"
    /\ UNCHANGED <<pf_plan, pf_err>>
    /\ PartitionOthers

\* split_to_n_dir: the matching entries of the source are listed, and
\* split_based_on_count shares them out
ListSource ==
    /\ pf_pc = "made"
    /\ \E o \in Orders(listed_names) :
          pf_plan' = split_based_on_count(
                         pf_in.n, [k \in 1..Len(o) |-> Append(Source, o[k])])
    /\ pf_pc' = "moving"
    /\ UNCHANGED <<pf_fs, pf_err>>
    /\ PartitionOthers

\* shutil.move(file, dirs[i]) for the next path of the list
Move ==
    /\ pf_pc = "moving" /\ pf_plan # <<>>
    /\ pf_fs' = shutil_move(pf_fs, pf_plan[1][1],
                            Append(Destination, PartName(pf_plan[1][2]))).fs
    /\ pf_err' = shutil_move(pf_fs, pf_plan[1][1],
                             Append(Destination, PartName(pf_plan[1][2]))).status
    /\ pf_pc' = IF pf_err' = "ok" THEN "moving" ELSE "failed"
    /\ pf_plan' = Tail(pf_plan)
    /\ PartitionOthers

\* the loops are over
Finish ==
    /\ pf_pc = "moving" /\ pf_plan = <<>>
    /\ pf_pc' = "done"
    /\ UNCHANGED <<pf_fs, pf_plan, pf_err>>
    /\ PartitionOthers

NextPartition == Mkdirs \/ ListSource \/ Move \/ Finish

SpecPartition == InitPartition /\ [][NextPartition]_vars

\* the files of the source that match the pattern
MatchingFiles == {x \in pf_in.names : re_search(pf_in.pattern, x)}

\* the partitions that hold file x
PartitionsOf(x) ==
    {i \in 1..pf_in.n :
        File(Append(Append(Destination, PartName(i)), x), x) \in pf_fs}

\* the number of matching files partition i holds
FileCount(i) == Cardinality({x \in MatchingFiles : i \in PartitionsOf(x)})

\* C30: when partition has run, every matching file is in exactly one of
\* the n partition directories and nowhere else, and the file counts of two
\* partitions differ by at most one.
C30_EveryFileInOnePartition ==
    pf_pc = "done" =>
        /\ \A x \in MatchingFiles :
              /\ Cardinality(PartitionsOf(x)) = 1
              /\ Cardinality({e \in pf_fs : e.id = x}) = 1
        /\ \A i, j \in 1..pf_in.n : FileCount(i) - FileCount(j) <= 1

====
